---------------------------- MODULE Spec2Model ----------------------------
(***************************************************************************)
(* Beldy Connect (src/Capstone.py and its near-duplicate variants): the    *)
(* basket price estimator predict_basket_price, the one-time model         *)
(* initialisation of setup_app / initialize_model / create_sample_model,   *)
(* and the Streamlit session driven by script reruns.                      *)
(*                                                                         *)
(* Python floats are IEEE-754 binary64.  A finite double is modelled       *)
(* exactly, as a sign and a magnitude counted in units of 2^-FracBits;     *)
(* the magnitude is a little-endian sequence of NLimbs limbs of LimbBits   *)
(* bits, because one TLC integer cannot hold 53 significant bits.  Every   *)
(* arithmetic result is rounded to 53 significant bits, ties to even, as   *)
(* the hardware does.                                                      *)
(***************************************************************************)
EXTENDS Integers, Sequences, FiniteSets, TLC

\* ------------------------------------------------------------------------
\* binary64 arithmetic
\* ------------------------------------------------------------------------

LimbBits == 20
NLimbs == 4
FracBits == 60
Mantissa == 53

Pow2(n) == 2 ^ n
LimbBase == Pow2(LimbBits)

ZeroMag == [i \in 1..NLimbs |-> 0]

\* The integer n, 0 <= n < LimbBase, in units of 2^-FracBits.
IntMag(n) == [i \in 1..NLimbs |-> IF i = (FracBits \div LimbBits) + 1 THEN n ELSE 0]

RECURSIVE BitLen(_)
BitLen(x) == IF x = 0 THEN 0 ELSE 1 + BitLen(x \div 2)

RECURSIVE TopLimb(_, _)
TopLimb(m, i) == IF i = 0 THEN 0 ELSE IF m[i] # 0 THEN i ELSE TopLimb(m, i - 1)

\* Number of significant bits of a magnitude.
MagBits(m) ==
    LET t == TopLimb(m, NLimbs)
    IN  IF t = 0 THEN 0 ELSE LimbBits * (t - 1) + BitLen(m[t])

\* Carry into limb i when each limb j of a raw (un-normalised) magnitude
\* holds raw[j] < 2^31 - LimbBase.
RECURSIVE CarryInto(_, _)
CarryInto(raw, i) ==
    IF i = 1 THEN 0 ELSE (raw[i - 1] + CarryInto(raw, i - 1)) \div LimbBase

Normalise(raw) == [i \in 1..NLimbs |-> (raw[i] + CarryInto(raw, i)) % LimbBase]

RECURSIVE MagCmp(_, _, _)
\* -1, 0, 1 as a < b, a = b, a > b, comparing from limb i downwards.
MagCmp(a, b, i) ==
    IF i = 0 THEN 0
    ELSE IF a[i] < b[i] THEN -1
    ELSE IF a[i] > b[i] THEN 1
    ELSE MagCmp(a, b, i - 1)

\* Round a magnitude to Mantissa significant bits, ties to even.  sticky says
\* that the exact value lies strictly above m (a division left a remainder).
\* The bits rounded away lie in the lowest limb (values below 2^12).
RoundMag(m, sticky) ==
    LET drop == MagBits(m) - Mantissa
    IN  IF drop <= 0 THEN m
        ELSE LET unit  == Pow2(drop)
                 lower == m[1] % unit
                 half  == unit \div 2
                 odd   == (m[1] \div unit) % 2 = 1
                 up    == \/ lower > half
                          \/ lower = half /\ (sticky \/ odd)
                 cut   == [m EXCEPT ![1] = m[1] - lower]
             IN  IF up THEN Normalise([cut EXCEPT ![1] = cut[1] + unit])
                 ELSE cut

Double == [neg : BOOLEAN, mag : [1..NLimbs -> 0..(LimbBase - 1)]]

Pos(m) == [neg |-> FALSE, mag |-> m]

\* float(n) for an int n with |n| < LimbBase: exact.
DInt(n) == [neg |-> n < 0, mag |-> IntMag(IF n < 0 THEN -n ELSE n)]

RECURSIVE DivRem(_, _, _)
\* Remainder carried into limb i of the long division of m by the small d.
DivRem(m, d, i) ==
    IF i > NLimbs THEN 0 ELSE (DivRem(m, d, i + 1) * LimbBase + m[i]) % d

MagDiv(m, d) == [i \in 1..NLimbs |-> (DivRem(m, d, i + 1) * LimbBase + m[i]) \div d]

\* The double a decimal literal num/den (num >= 0, 0 < den < 2^10, value
\* at least 2^-6) is parsed to: the nearest double, ties to even.
Lit(num, den) ==
    Pos(RoundMag(MagDiv(IntMag(num), den), DivRem(IntMag(num), den, 1) # 0))

\* The float literals of predict_basket_price.
F_0_8 == Lit(4, 5)
F_1_5 == Lit(3, 2)
F_0_1 == Lit(1, 10)
F_0_05 == Lit(1, 20)
F_1_0 == Pos(IntMag(1))

\* a + b for non-negative doubles.
DAdd(a, b) == Pos(RoundMag(Normalise([i \in 1..NLimbs |-> a.mag[i] + b.mag[i]]), FALSE))

\* k * a for an int 0 <= k < 2^10 and a non-negative double a: Python
\* converts k to float (exactly) and multiplies, rounding once.
DMulInt(k, a) == Pos(RoundMag(Normalise([i \in 1..NLimbs |-> k * a.mag[i]]), FALSE))

\* a < b
DLess(a, b) ==
    LET c == MagCmp(a.mag, b.mag, NLimbs)
    IN  IF a.neg /\ b.neg THEN c = 1
        ELSE IF a.neg THEN b.mag # ZeroMag \/ a.mag # ZeroMag
        ELSE IF b.neg THEN FALSE
        ELSE c = -1

DLeq(a, b) == ~DLess(b, a)

\* Python's builtin min(a, b) and max(a, b): the first argument unless the
\* second is strictly smaller (larger).
PyMin(a, b) == IF DLess(b, a) THEN b ELSE a
PyMax(a, b) == IF DLess(a, b) THEN b ELSE a

\* ------------------------------------------------------------------------
\* item names and the catalog
\* ------------------------------------------------------------------------

\* A Python str is the sequence of its characters, so that the substring
\* test `in` can be computed.

\* 'Vegetables (1kg)'
Vegetables_1kg == <<"V", "e", "g", "e", "t", "a", "b", "l", "e", "s", " ", "(", "1", "k", "g", ")">>
\* 'Fruits (1kg)'
Fruits_1kg == <<"F", "r", "u", "i", "t", "s", " ", "(", "1", "k", "g", ")">>
\* 'Cheese (250g)'
Cheese_250g == <<"C", "h", "e", "e", "s", "e", " ", "(", "2", "5", "0", "g", ")">>
\* 'Yogurt'
Yogurt == <<"Y", "o", "g", "u", "r", "t">>
\* 'Milk (1L)'
Milk_1L == <<"M", "i", "l", "k", " ", "(", "1", "L", ")">>
\* 'Chicken (1kg)'
Chicken_1kg == <<"C", "h", "i", "c", "k", "e", "n", " ", "(", "1", "k", "g", ")">>
\* 'Eggs (dozen)'
Eggs_dozen == <<"E", "g", "g", "s", " ", "(", "d", "o", "z", "e", "n", ")">>
\* 'Bread (loaf)'
Bread_loaf == <<"B", "r", "e", "a", "d", " ", "(", "l", "o", "a", "f", ")">>
\* 'Rice (1kg)'
Rice_1kg == <<"R", "i", "c", "e", " ", "(", "1", "k", "g", ")">>
\* 'Energy Balls'
Energy_Balls == <<"E", "n", "e", "r", "g", "y", " ", "B", "a", "l", "l", "s">>
\* 'Protein Bars'
Protein_Bars == <<"P", "r", "o", "t", "e", "i", "n", " ", "B", "a", "r", "s">>
\* 'Dried Fruits'
Dried_Fruits == <<"D", "r", "i", "e", "d", " ", "F", "r", "u", "i", "t", "s">>
\* 'Granola Bars'
Granola_Bars == <<"G", "r", "a", "n", "o", "l", "a", " ", "B", "a", "r", "s">>
\* 'Nuts (200g)'
Nuts_200g == <<"N", "u", "t", "s", " ", "(", "2", "0", "0", "g", ")">>
\* 'Dark Chocolate'
Dark_Chocolate == <<"D", "a", "r", "k", " ", "C", "h", "o", "c", "o", "l", "a", "t", "e">>
\* 'Homemade Bread'
Homemade_Bread == <<"H", "o", "m", "e", "m", "a", "d", "e", " ", "B", "r", "e", "a", "d">>
\* 'Homemade Jam'
Homemade_Jam == <<"H", "o", "m", "e", "m", "a", "d", "e", " ", "J", "a", "m">>
\* 'Fresh Butter'
Fresh_Butter == <<"F", "r", "e", "s", "h", " ", "B", "u", "t", "t", "e", "r">>
\* 'Local Honey'
Local_Honey == <<"L", "o", "c", "a", "l", " ", "H", "o", "n", "e", "y">>
\* 'Farm Eggs (dozen)'
Farm_Eggs_dozen == <<"F", "a", "r", "m", " ", "E", "g", "g", "s", " ", "(", "d", "o", "z", "e", "n", ")">>
\* 'Fresh Cheese'
Fresh_Cheese == <<"F", "r", "e", "s", "h", " ", "C", "h", "e", "e", "s", "e">>
\* 'Homemade Hricha'
Homemade_Hricha == <<"H", "o", "m", "e", "m", "a", "d", "e", " ", "H", "r", "i", "c", "h", "a">>
\* 'Local Tea Herbs'
Local_Tea_Herbs == <<"L", "o", "c", "a", "l", " ", "T", "e", "a", " ", "H", "e", "r", "b", "s">>
\* 'Homemade Ground Coffee'
Homemade_Ground_Coffee == <<"H", "o", "m", "e", "m", "a", "d", "e", " ", "G", "r", "o", "u", "n", "d", " ", "C", "o", "f", "f", "e", "e">>
\* 'Fresh Cow/Goat Milk'
Fresh_Cow_Goat_Milk == <<"F", "r", "e", "s", "h", " ", "C", "o", "w", "/", "G", "o", "a", "t", " ", "M", "i", "l", "k">>

\* A name that is no key of the catalog.
\* 'milk'
milk == <<"m", "i", "l", "k">>

\* The needles of the Has_Protein test.
Chicken == <<"C", "h", "i", "c", "k", "e", "n">>
Eggs == <<"E", "g", "g", "s">>
Milk == <<"M", "i", "l", "k">>

\* setup_app's 'all_items' literal.
all_items_catalog ==
    (Vegetables_1kg :> 25) @@
    (Fruits_1kg :> 30) @@
    (Cheese_250g :> 25) @@
    (Yogurt :> 10) @@
    (Milk_1L :> 15) @@
    (Chicken_1kg :> 50) @@
    (Eggs_dozen :> 20) @@
    (Bread_loaf :> 8) @@
    (Rice_1kg :> 20) @@
    (Energy_Balls :> 15) @@
    (Protein_Bars :> 12) @@
    (Dried_Fruits :> 18) @@
    (Granola_Bars :> 10) @@
    (Nuts_200g :> 25) @@
    (Dark_Chocolate :> 20) @@
    (Homemade_Bread :> 25) @@
    (Homemade_Jam :> 20) @@
    (Fresh_Butter :> 15) @@
    (Local_Honey :> 30) @@
    (Farm_Eggs_dozen :> 25) @@
    (Fresh_Cheese :> 20) @@
    (Homemade_Hricha :> 15) @@
    (Local_Tea_Herbs :> 10) @@
    (Homemade_Ground_Coffee :> 25) @@
    (Fresh_Cow_Goat_Milk :> 20)

\* ------------------------------------------------------------------------
\* Python values
\* ------------------------------------------------------------------------

\* An optional value: None, or the one-element sequence holding the value.
None == <<>>
Some(x) == <<x>>

\* d.get(k, default)
PyGet(d, k, default) == IF k \in DOMAIN d THEN d[k] ELSE default

\* s.startswith(needle) in place of needle in s.
ContainsAsPrefix(needle, s) ==
    Len(needle) <= Len(s) /\ SubSeq(s, 1, Len(needle)) = needle

\* needle in s, for two str
Contains(needle, s) ==
    \E i \in 1..(Len(s) - Len(needle) + 1) : SubSeq(s, i, i + Len(needle) - 1) = needle

\* ------------------------------------------------------------------------
\* predict_basket_price
\* ------------------------------------------------------------------------

\* A lookup whose default is not 0.
item_price_default_ten(all_items, item) == PyGet(all_items, item, 10)

\* all_items.get(item, 0)
item_price(all_items, item) == PyGet(all_items, item, 0)

RECURSIVE price_sum(_, _)
\* sum(st.session_state.all_items.get(item, 0) for item in selected_items)
price_sum(all_items, selected_items) ==
    IF selected_items = <<>> THEN 0
    ELSE item_price(all_items, Head(selected_items))
         + price_sum(all_items, Tail(selected_items))

\* int(any('Chicken' in item or 'Eggs' in item or 'Milk' in item ...))
Has_Protein(selected_items) ==
    IF \E i \in 1..Len(selected_items) :
          \/ Contains(Chicken, selected_items[i])
          \/ Contains(Eggs, selected_items[i])
          \/ Contains(Milk, selected_items[i])
    THEN 1 ELSE 0

\* The keys of nutrition_data the feature record subscripts.
FeatureKeys == {"fats", "carbs", "proteins", "fiber"}

\* The one-row DataFrame handed to the model; None when a subscript of
\* nutrition_data raises KeyError.
input_data(diet_type, nutrition_data, selected_items, budget) ==
    IF ~(FeatureKeys \subseteq DOMAIN nutrition_data) THEN None
    ELSE Some([Diet_Type       |-> diet_type,
               Weekly_Fats     |-> nutrition_data["fats"],
               Weekly_Carbs    |-> nutrition_data["carbs"],
               Weekly_Proteins |-> nutrition_data["proteins"],
               Weekly_Fiber    |-> nutrition_data["fiber"],
               Item_Count      |-> Len(selected_items),
               Has_Protein     |-> Has_Protein(selected_items),
               Budget          |-> budget])

\* The three steps as one if/elif chain: at most one of them applies.
multiplier_first_match(nutrition_data) ==
    IF nutrition_data["proteins"] > 150 THEN DAdd(F_1_0, F_0_1)
    ELSE IF nutrition_data["fats"] > 80 THEN DAdd(F_1_0, F_0_05)
    ELSE IF nutrition_data["carbs"] < 1000 THEN DAdd(F_1_0, F_0_05)
    ELSE F_1_0

\* The thresholds taken as inclusive.
multiplier_inclusive(nutrition_data) ==
    LET m0 == F_1_0
        m1 == IF nutrition_data["proteins"] >= 150 THEN DAdd(m0, F_0_1) ELSE m0
        m2 == IF nutrition_data["fats"] >= 80 THEN DAdd(m1, F_0_05) ELSE m1
        m3 == IF nutrition_data["carbs"] <= 1000 THEN DAdd(m2, F_0_05) ELSE m2
    IN  m3

\* The fallback's multiplier: 1.0, then the three += in source order.
multiplier(nutrition_data) ==
    LET m0 == F_1_0
        m1 == IF nutrition_data["proteins"] > 150 THEN DAdd(m0, F_0_1) ELSE m0
        m2 == IF nutrition_data["fats"] > 80 THEN DAdd(m1, F_0_05) ELSE m1
        m3 == IF nutrition_data["carbs"] < 1000 THEN DAdd(m2, F_0_05) ELSE m2
    IN  m3

\* The except branch charging every item twice.
fallback_price_doubled(state, nutrition_data, selected_items) ==
    DMulInt(2 * price_sum(state.all_items, selected_items), multiplier(nutrition_data))

\* The except branch: base_price * multiplier.
fallback_price(state, nutrition_data, selected_items) ==
    DMulInt(price_sum(state.all_items, selected_items), multiplier(nutrition_data))

\* `except ValueError:` in place of the bare except: an exception of
\* model.predict escapes.
predicted_price_except_ValueError(state, nutrition_data, selected_items, predict) ==
    IF state.model # None /\ predict.raises
    THEN [raised |-> TRUE, path |-> "model", value |-> DInt(0)]
    ELSE IF state.model # None
    THEN [raised |-> FALSE, path |-> "model", value |-> predict.value]
    ELSE [raised |-> FALSE, path |-> "fallback",
          value |-> fallback_price(state, nutrition_data, selected_items)]

\* The try/except: the model's prediction when the session holds a truthy
\* model and predict returns; the fallback after the ValueError raised for a
\* missing model or after any exception of predict (a bare except).  predict
\* is what model.predict does when called: [raises, value].
predicted_price(state, nutrition_data, selected_items, predict) ==
    IF state.model # None /\ ~predict.raises
    THEN [raised |-> FALSE, path |-> "model", value |-> predict.value]
    ELSE [raised |-> FALSE, path |-> "fallback",
          value |-> fallback_price(state, nutrition_data, selected_items)]

\* The clamp without its lower bound, and without its upper bound.
clamp_upper_only(predicted, min_price, max_price) == PyMin(predicted, max_price)
clamp_lower_only(predicted, min_price, max_price) == PyMax(predicted, min_price)

\* max(min(predicted_price, max_price), min_price)
clamp(predicted, min_price, max_price) == PyMax(PyMin(predicted, max_price), min_price)

\* One call of predict_basket_price: what it read, whether it raised, which
\* path it took and what it returned.
predict_basket_price(state, diet_type, nutrition_data, selected_items, budget, predict) ==
    LET features  == input_data(diet_type, nutrition_data, selected_items, budget)
        args      == [diet_type |-> diet_type, nutrition_data |-> nutrition_data,
                      selected_items |-> selected_items, budget |-> budget,
                      predict |-> predict]
    IN  IF features = None
        THEN [args |-> args, features |-> None, raised |-> TRUE,
              path |-> "none", returns |-> None]
        ELSE LET p == predicted_price(state, nutrition_data, selected_items, predict)
                 min_price == DMulInt(price_sum(state.all_items, selected_items), F_0_8)
                 max_price == DMulInt(price_sum(state.all_items, selected_items), F_1_5)
             IN  IF p.raised
                 THEN [args |-> args, features |-> features, raised |-> TRUE,
                       path |-> p.path, returns |-> None]
                 ELSE [args |-> args, features |-> features, raised |-> FALSE,
                       path |-> p.path,
                       returns |-> Some(clamp(p.value, min_price, max_price))]

\* ------------------------------------------------------------------------
\* state
\* ------------------------------------------------------------------------

VARIABLES
    session_state,  \* st.session_state: key -> value; no key before setup_app
    disk,           \* the working directory: basket_predictor.joblib, feedback.csv
    init_log,       \* what model initialisation did in this session, in order
    call,           \* the call of predict_basket_price the last run made, None if none
                    \* (under SpecMail: its call of send_order_notification)
    screen,         \* what the last run left in the browser: a page, or an exception
    notice          \* the st.error message the last run showed, "" when none

vars == <<session_state, disk, init_log, call, screen, notice>>

\* st.session_state.update(upd)
Update(state, upd) == upd @@ state

\* ------------------------------------------------------------------------
\* setup_app, initialize_model, create_sample_model
\* ------------------------------------------------------------------------

\* The Pipeline create_sample_model fits in this session; the one an earlier
\* process left in basket_predictor.joblib.
FittedModel == "fitted"
PersistedModel == "persisted"

\* The dict setup_app stores on a session's first run.
setup_defaults ==
    [initialized |-> TRUE,
     logged_in |-> FALSE,
     username |-> None,
     show_signup |-> FALSE,
     show_login |-> TRUE,
     show_feedback |-> FALSE,
     order_confirmed |-> FALSE,
     selected_basket |-> None,
     order_address |-> <<>>,
     custom_basket |-> <<>>,
     show_custom_basket |-> FALSE,
     show_existing_baskets |-> FALSE,
     delivery_details |-> None,
     chat_messages |-> <<>>,
     show_contact_driver |-> FALSE,
     delivery_completed |-> FALSE,
     users |-> [student1 |-> [password |-> "studentpass", first_name |-> "Salma",
                              last_name |-> "Sabri", phone |-> "0628355884"]],
     all_items |-> all_items_catalog,
     diet_type |-> "Balanced",
     weekly_proteins |-> 120,
     weekly_carbs |-> 300,
     weekly_fats |-> 70,
     weekly_fiber |-> 25,
     budget_slider |-> 200,
     model |-> None,
     predicted_price |-> DInt(0),
     last_calculation_hash |-> None,
     current_basket_hash |-> None]

\* What the environment lets create_sample_model do: finish; raise before
\* st.session_state.model is assigned (the fit); raise in joblib.dump, after
\* the assignment.
CreateOutcomes == {"ok", "fit_raises", "dump_raises"}

\* create_sample_model without its last line, joblib.dump.
create_sample_model_without_dump(state, d, log, outcome) ==
    LET entered == Append(log, "create_sample_model")
    IN  IF outcome = "fit_raises"
        THEN [state |-> state, disk |-> d, raised |-> TRUE,
              log |-> Append(entered, "create_raised")]
        ELSE [state |-> Update(state, [model |-> Some(FittedModel)]), disk |-> d,
              raised |-> FALSE, log |-> Append(entered, "create_returned")]

\* create_sample_model: [state, disk, log, raised].
create_sample_model(state, d, log, outcome) ==
    LET entered == Append(log, "create_sample_model")
    IN  CASE outcome = "fit_raises" ->
               [state |-> state, disk |-> d, raised |-> TRUE,
                log |-> Append(entered, "create_raised")]
          [] outcome = "dump_raises" ->
               [state |-> Update(state, [model |-> Some(FittedModel)]), disk |-> d,
                raised |-> TRUE, log |-> Append(entered, "create_raised")]
          [] OTHER ->
               [state |-> Update(state, [model |-> Some(FittedModel)]),
                disk |-> [d EXCEPT !.artifact = Some(FittedModel)],
                raised |-> FALSE, log |-> Append(entered, "create_returned")]

\* initialize_model: joblib.load raises when the artifact is absent, and may
\* raise when it is present (load_ok says whether it can be read).
initialize_model(state, d, log, load_ok, outcome) ==
    LET entered == Append(log, "initialize_model")
    IN  IF d.artifact # None /\ load_ok
        THEN [state |-> Update(state, [model |-> d.artifact]), disk |-> d,
              raised |-> FALSE, log |-> Append(entered, "loaded")]
        ELSE create_sample_model(state, d, Append(entered, "load_raised"), outcome)

\* A guard that would also retry while the session holds no model.
needs_setup_or_no_model(state) ==
    "initialized" \notin DOMAIN state \/ state.model = None

\* The guard of setup_app: 'initialized' not in st.session_state.
needs_setup(state) == "initialized" \notin DOMAIN state

\* setup_app: [state, disk, log, raised].
setup_app(state, d, log, load_ok, outcome) ==
    IF needs_setup(state)
    THEN initialize_model(Update(state, setup_defaults), d, log, load_ok, outcome)
    ELSE [state |-> state, disk |-> d, raised |-> FALSE, log |-> log]


\* ------------------------------------------------------------------------
\* the pages of src/Capstone.py: one operator per button or form handler
\* ------------------------------------------------------------------------

\* Truthiness of an optional dict or object.
Truthy(opt) == opt # None

RECURSIVE lstrip(_)
lstrip(s) == IF s # <<>> /\ Head(s) = " " THEN lstrip(Tail(s)) ELSE s

RECURSIVE rstrip(_)
rstrip(s) == IF s # <<>> /\ s[Len(s)] = " " THEN rstrip(SubSeq(s, 1, Len(s) - 1)) ELSE s

\* str.strip()
strip(s) == rstrip(lstrip(s))

\* The page main() renders for a session state whose keys are set.
page(state) ==
    IF ~state.logged_in
    THEN IF state.show_signup THEN "signup" ELSE "login"
    ELSE IF state.order_confirmed THEN "confirmed"
    ELSE IF Truthy(state.selected_basket)
    THEN IF ~Truthy(state.delivery_details) THEN "delivery_choice"
         ELSE "order_confirmation"
    ELSE IF state.show_custom_basket THEN "custom_basket"
    ELSE IF state.show_existing_baskets THEN "existing_baskets"
    ELSE "basket_options"

\* The first message show_support_options stores when the chat is empty.
assistant_hello == [role |-> "assistant", content |-> "hello"]

\* A run of main() with no widget event, as st.rerun() starts one: the
\* delivery-choice page opens on Traditional Delivery, whose support tab
\* seeds an empty chat (and reruns).
rerun(state) ==
    IF page(state) = "delivery_choice" /\ Len(state.chat_messages) = 0
    THEN Update(state, [chat_messages |-> <<assistant_hello>>])
    ELSE state

\* The Sign Up form without its check of the registered usernames.
signup_submit_overwriting(state, form) ==
    IF \/ form.first_name = "" \/ form.last_name = "" \/ form.username = ""
       \/ form.phone = "" \/ form.password = ""
    THEN state
    ELSE IF form.password # form.confirm_password THEN state
    ELSE rerun(Update(state,
            [users |-> (form.username :> [password |-> form.password,
                                         first_name |-> form.first_name,
                                         last_name |-> form.last_name,
                                         phone |-> form.phone]) @@ state.users,
             show_login |-> TRUE,
             show_signup |-> FALSE]))

\* signup_page, the Sign Up form.
signup_submit(state, form) ==
    IF \/ form.first_name = "" \/ form.last_name = "" \/ form.username = ""
       \/ form.phone = "" \/ form.password = ""
    THEN state
    ELSE IF form.password # form.confirm_password THEN state
    ELSE IF form.username \in DOMAIN state.users THEN state
    ELSE rerun(Update(state,
            [users |-> (form.username :> [password |-> form.password,
                                         first_name |-> form.first_name,
                                         last_name |-> form.last_name,
                                         phone |-> form.phone]) @@ state.users,
             show_login |-> TRUE,
             show_signup |-> FALSE]))

\* signup_page, the Sign Up form: the st.error shown, "" when the form passes.
signup_error(state, form) ==
    IF \/ form.first_name = "" \/ form.last_name = "" \/ form.username = ""
       \/ form.phone = "" \/ form.password = ""
    THEN "Please fill out all fields"
    ELSE IF form.password # form.confirm_password THEN "Passwords don't match!"
    ELSE IF form.username \in DOMAIN state.users THEN "Username already exists!"
    ELSE ""

\* signup_page, "Back to Login".
back_to_login(state) == rerun(Update(state, [show_signup |-> FALSE, show_login |-> TRUE]))

\* The Login form accepting any password of a registered user.
login_submit_any_password(state, username, password) ==
    IF username \in DOMAIN state.users
    THEN rerun(Update(state,
            [logged_in |-> TRUE,
             username |-> Some(username),
             user_info |-> state.users[username],
             show_custom_basket |-> FALSE,
             show_existing_baskets |-> FALSE,
             selected_basket |-> None]))
    ELSE state

\* login_page, the Login form.
login_submit(state, username, password) ==
    IF username \in DOMAIN state.users /\ state.users[username].password = password
    THEN rerun(Update(state,
            [logged_in |-> TRUE,
             username |-> Some(username),
             user_info |-> state.users[username],
             show_custom_basket |-> FALSE,
             show_existing_baskets |-> FALSE,
             selected_basket |-> None]))
    ELSE state

\* login_page, the Login form: the st.error shown.
login_error(state, username, password) ==
    IF username \in DOMAIN state.users /\ state.users[username].password = password
    THEN ""
    ELSE "Invalid credentials"

\* login_page, "Go to Sign Up".
go_to_signup(state) == rerun(Update(state, [show_signup |-> TRUE, show_login |-> FALSE]))

\* "Create Custom Basket" opening both basket pages.
create_custom_basket_opening_both(state) ==
    rerun(Update(state, [show_custom_basket |-> TRUE,
                         show_existing_baskets |-> TRUE,
                         selected_basket |-> None,
                         custom_basket |-> <<>>]))

\* show_basket_options, "Create Custom Basket".
create_custom_basket(state) ==
    rerun(Update(state, [show_custom_basket |-> TRUE,
                         show_existing_baskets |-> FALSE,
                         selected_basket |-> None,
                         custom_basket |-> <<>>]))

\* show_basket_options, "Browse Baskets".
browse_baskets(state) ==
    rerun(Update(state, [show_existing_baskets |-> TRUE,
                         show_custom_basket |-> FALSE,
                         selected_basket |-> None]))

\* show_custom_basket, the widgets: every run stores their values.
edit_custom_basket(state, diet_type, proteins, ticked) ==
    Update(state, [diet_type |-> diet_type,
                   weekly_proteins |-> proteins,
                   custom_basket |-> ticked])

\* The nutrition_data dict "Predict Basket Price" builds.
session_nutrition_data(state) ==
    [proteins |-> state.weekly_proteins, carbs |-> state.weekly_carbs,
     fats |-> state.weekly_fats, fiber |-> state.weekly_fiber]

\* "Predict Basket Price" without the test for an empty basket.
predict_click_unchecked(state, predict) ==
    LET c == predict_basket_price(state, state.diet_type,
                                  session_nutrition_data(state),
                                  state.custom_basket, state.budget_slider, predict)
    IN  [state |-> rerun(Update(state,
                     [predicted_price |-> c.returns[1],
                      selected_basket |->
                          Some([name |-> "Custom Basket",
                                items |-> state.custom_basket,
                                price |-> c.returns[1]])])),
         call |-> Some(c)]

\* show_custom_basket, "Predict Basket Price": [state, call]; call is None
\* when predict_basket_price was not called.
predict_click(state, predict) ==
    IF state.custom_basket = <<>> THEN [state |-> state, call |-> None]
    ELSE LET c == predict_basket_price(state, state.diet_type,
                                       session_nutrition_data(state),
                                       state.custom_basket, state.budget_slider, predict)
         IN  IF c.raised THEN [state |-> state, call |-> Some(c)]
             ELSE [state |-> rerun(Update(state,
                              [predicted_price |-> c.returns[1],
                               selected_basket |->
                                   Some([name |-> "Custom Basket",
                                         items |-> state.custom_basket,
                                         price |-> c.returns[1]])])),
                   call |-> Some(c)]

\* show_custom_basket, "Predict Basket Price": the st.error shown.
predict_error(state) ==
    IF state.custom_basket = <<>> THEN "Please select at least one item!" ELSE ""

\* show_custom_basket, "Back to Options".
back_to_options(state) == rerun(Update(state, [show_custom_basket |-> FALSE]))

\* BASKETS, each with the image path show_existing_baskets gives it.
BASKETS ==
    [Chefs_Basket |->
        [name |-> "The Chef's Basket",
         items |-> <<Vegetables_1kg, Fruits_1kg, Cheese_250g, Yogurt, Milk_1L,
                     Chicken_1kg, Eggs_dozen, Bread_loaf, Rice_1kg>>,
         image |-> "imgs/chef.jpg", fixed_price |-> None],
     Snackers_Basket |->
        [name |-> "Snacker's Basket",
         items |-> <<Energy_Balls, Protein_Bars, Dried_Fruits, Granola_Bars,
                     Nuts_200g, Dark_Chocolate>>,
         image |-> "imgs/snack.jpg", fixed_price |-> None],
     Balanced_Basket |->
        [name |-> "Balanced Basket",
         items |-> <<Fruits_1kg, Vegetables_1kg, Eggs_dozen, Yogurt,
                     Granola_Bars, Rice_1kg>>,
         image |-> "imgs/snacks.jpg", fixed_price |-> None],
     Breakfast_Basket |->
        [name |-> "Breakfast Basket",
         items |-> <<Homemade_Bread, Homemade_Jam, Fresh_Butter, Local_Honey,
                     Farm_Eggs_dozen, Fresh_Cheese, Homemade_Hricha, Local_Tea_Herbs,
                     Homemade_Ground_Coffee, Fresh_Cow_Goat_Milk>>,
         image |-> "imgs/br.jpg", fixed_price |-> Some(100)]]

\* data.get('fixed_price', sum(all_items.get(item, 0) for item in data['items']))
basket_price(state, data) ==
    IF data.fixed_price # None THEN data.fixed_price[1]
    ELSE price_sum(state.all_items, data.items)

\* show_existing_baskets, "Select <name>".
select_basket(state, key) ==
    rerun(Update(state,
        [selected_basket |-> Some([name |-> BASKETS[key].name,
                                   items |-> BASKETS[key].items,
                                   price |-> DInt(basket_price(state, BASKETS[key])),
                                   image |-> BASKETS[key].image])]))

\* show_existing_baskets, "Back".
back_from_baskets(state) == rerun(Update(state, [show_existing_baskets |-> FALSE]))

\* "Confirm Delivery Options" with the chill-bag fee assigned, not added.
confirm_delivery_options_overwriting_fees(state, is_express, chill_bag) ==
    LET fees_express == IF is_express THEN 20 ELSE 0
        additional_fees == IF chill_bag THEN 5 ELSE fees_express
    IN  rerun(Update(state,
            [delivery_details |->
                Some([location |-> "Main Gate",
                      notes |-> "",
                      details |-> "Primary entrance (Security booth)",
                      is_express |-> is_express,
                      time_window |-> IF is_express THEN "slots 0-1" ELSE "slots 2-3",
                      date |-> "today",
                      eco_packaging |-> TRUE,
                      chill_bag |-> chill_bag,
                      signature_required |-> TRUE,
                      method |-> "Traditional",
                      fees |-> additional_fees])]))

\* show_traditional_delivery, "Confirm Delivery Options": the dicts of
\* show_address_verification, show_delivery_scheduling and
\* show_package_options merged, then the method and the fees.
confirm_delivery_options(state, is_express, chill_bag) ==
    LET fees_express == IF is_express THEN 20 ELSE 0
        additional_fees == fees_express + (IF chill_bag THEN 5 ELSE 0)
    IN  rerun(Update(state,
            [delivery_details |->
                Some([location |-> "Main Gate",
                      notes |-> "",
                      details |-> "Primary entrance (Security booth)",
                      is_express |-> is_express,
                      time_window |-> IF is_express THEN "slots 0-1" ELSE "slots 2-3",
                      date |-> "today",
                      eco_packaging |-> TRUE,
                      chill_bag |-> chill_bag,
                      signature_required |-> TRUE,
                      method |-> "Traditional",
                      fees |-> additional_fees])]))

\* show_bikesync_delivery, "Confirm BikeSync Pickup".
confirm_bikesync_pickup(state, pickup_location) ==
    rerun(Update(state,
        [delivery_details |->
            Some([method |-> "BikeSync",
                  pickup_time |-> "Booked via BikeSync website",
                  location |-> pickup_location,
                  fees |-> 10])]))

\* show_support_options, the chat input: the canned answer is chosen by the
\* words of the prompt.
chat_response(prompt) ==
    CASE prompt = "delivery" -> "being prepared"
      [] prompt = "cancel" -> "cancellation"
      [] prompt \in {"time", "when"} -> "scheduled today"
      [] OTHER -> "representative will respond"

chat_prompt(state, prompt) ==
    rerun(Update(state,
        [chat_messages |->
            state.chat_messages \o <<[role |-> "user", content |-> prompt],
                                     [role |-> "assistant",
                                      content |-> chat_response(prompt)]>>]))

\* "Place Order" without the test of the address.
place_order_any_address(state, address) ==
    IF ~Truthy(state.delivery_details) THEN state
    ELSE rerun(Update(state, [order_confirmed |-> TRUE, order_address |-> address]))

\* show_order_confirmation, "Place Order".
place_order(state, address) ==
    IF strip(address) = <<>> THEN state
    ELSE IF ~Truthy(state.delivery_details) THEN state
    ELSE rerun(Update(state, [order_confirmed |-> TRUE, order_address |-> address]))

\* show_order_confirmation, "Place Order": the st.error shown.
place_order_error(state, address) ==
    IF strip(address) = <<>> THEN "Please enter your delivery address!"
    ELSE IF ~Truthy(state.delivery_details) THEN "Please select a delivery method!"
    ELSE ""

\* show_order_confirmation, "Back".
back_from_confirmation(state) == rerun(Update(state, [delivery_details |-> None]))

\* show_confirmed_order_dashboard, "I received my basket".
received_basket(state) == rerun(Update(state, [delivery_completed |-> TRUE]))

\* show_delivery_tracker, "Call Driver".
call_driver(state) == Update(state, [show_contact_driver |-> TRUE])

\* log_feedback: the row is appended; when the appending to_csv raises, the
\* except branch writes the file anew, holding this row alone.
log_feedback(state, d, rating, comments, append_ok) ==
    LET feedback_data == [username |-> state.username, rating |-> rating,
                          comments |-> comments,
                          order_details |-> state.selected_basket]
    IN  IF append_ok THEN [d EXCEPT !.feedback = Append(@, feedback_data)]
        ELSE [d EXCEPT !.feedback = <<feedback_data>>]

\* "Start New Order" clearing the model with the order.
start_new_order_dropping_model(state) ==
    rerun(Update(state, [order_confirmed |-> FALSE,
                         selected_basket |-> None,
                         show_custom_basket |-> FALSE,
                         show_existing_baskets |-> FALSE,
                         delivery_details |-> None,
                         delivery_completed |-> FALSE,
                         model |-> None]))

\* "Start New Order" leaving delivery_completed as it is.
start_new_order_keeping_delivery_completed(state) ==
    rerun(Update(state, [order_confirmed |-> FALSE,
                         selected_basket |-> None,
                         show_custom_basket |-> FALSE,
                         show_existing_baskets |-> FALSE,
                         delivery_details |-> None]))

\* "Start New Order" leaving the ordered basket selected.
start_new_order_keeping_selected_basket(state) ==
    rerun(Update(state, [order_confirmed |-> FALSE,
                         show_custom_basket |-> FALSE,
                         show_existing_baskets |-> FALSE,
                         delivery_details |-> None,
                         delivery_completed |-> FALSE]))

\* show_confirmed_order_dashboard, "Start New Order".
start_new_order(state) ==
    rerun(Update(state, [order_confirmed |-> FALSE,
                         selected_basket |-> None,
                         show_custom_basket |-> FALSE,
                         show_existing_baskets |-> FALSE,
                         delivery_details |-> None,
                         delivery_completed |-> FALSE]))

\* main, the sidebar's "Logout".
logout(state) == rerun(Update(state, [logged_in |-> FALSE]))

\* ------------------------------------------------------------------------
\* the estimator on its own: predict_basket_price over bounded inputs
\* ------------------------------------------------------------------------

\* Longest selected_items list tried.
MaxItems == 3

\* The names lists are drawn from: catalog keys and one name that is none.
ItemUniverse ==
    <<Milk_1L, Bread_loaf, Eggs_dozen, Protein_Bars, Farm_Eggs_dozen, Chicken_1kg, milk>>

RECURSIVE Pick(_, _)
\* The members of the index set idx, in the universe's order.
Pick(idx, i) ==
    IF i > Len(ItemUniverse) THEN <<>>
    ELSE IF i \in idx THEN <<ItemUniverse[i]>> \o Pick(idx, i + 1)
    ELSE Pick(idx, i + 1)

ItemLists ==
    {Pick(idx, 1) : idx \in {s \in SUBSET (1..Len(ItemUniverse)) : Cardinality(s) <= MaxItems}}

DietTypes == {"Balanced", "Vegetarian", "Vegan", "Keto"}

\* Well-formed profiles, on and around the three thresholds.
FullProfiles ==
    {[proteins |-> p, fats |-> f, carbs |-> c, fiber |-> 25] :
        p \in {150, 151}, f \in {80, 81}, c \in {999, 1000}}
    \cup {[proteins |-> 200, fats |-> 50, carbs |-> 1500, fiber |-> 25]}

\* Profiles with a key missing.
PartialProfiles ==
    {[proteins |-> 200, fats |-> 50, carbs |-> 1500],
     [fats |-> 81, carbs |-> 999, fiber |-> 25]}

Budgets == {150, 350}

\* What model.predict may do: raise, or return any double; these values lie
\* below, inside and above the bands of the baskets tried.
PredictedValues == {-50, 0, 30, 47, 100000}

PredictOutcomes ==
    {[raises |-> TRUE, value |-> DInt(0)]}
    \cup {[raises |-> FALSE, value |-> DInt(v)] : v \in PredictedValues}

\* model.predict is not reached when the session holds no model.
PredictFor(state) ==
    IF state.model = None THEN {[raises |-> TRUE, value |-> DInt(0)]} ELSE PredictOutcomes

\* The working directory at the start of a session.
Disks == {[artifact |-> a, feedback |-> <<>>] : a \in {None, Some(PersistedModel)}}

FreshDisk == [artifact |-> None, feedback |-> <<>>]

\* A session whose first run has ended, started in a fresh directory: the
\* model was fitted, or create_sample_model raised and left it None.
EstInit ==
    \E outcome \in {"ok", "fit_raises"} :
        LET r == setup_app(<<>>, FreshDisk, <<>>, TRUE, outcome)
        IN  /\ session_state = r.state
            /\ disk = r.disk
            /\ init_log = r.log
            /\ call = None
            /\ screen = IF r.raised THEN "exception" ELSE page(r.state)
            /\ notice = ""

Estimate ==
    /\ call = None
    /\ \E diet_type \in DietTypes, nutrition_data \in FullProfiles \cup PartialProfiles,
          selected_items \in ItemLists, budget \in Budgets,
          predict \in PredictFor(session_state) :
           call' = Some(predict_basket_price(session_state, diet_type, nutrition_data,
                                             selected_items, budget, predict))
    /\ UNCHANGED <<session_state, disk, init_log, screen, notice>>

EstNext == Estimate

SpecEst == EstInit /\ [][EstNext]_vars

\* ------------------------------------------------------------------------
\* the estimator's claims (checked under SpecEst)
\* ------------------------------------------------------------------------

\* The last call's record, once a call has been made.
TheCall == call[1]

WellFormed(c) == FeatureKeys \subseteq DOMAIN c.args.nutrition_data

AllInCatalog(c) ==
    \A i \in 1..Len(c.args.selected_items) :
        c.args.selected_items[i] \in DOMAIN session_state.all_items

RECURSIVE CatalogSum(_, _)
\* rawSum as the specification defines it: the catalog prices of the
\* selected items that the catalog knows, added up.
CatalogSum(catalog, items) ==
    IF items = <<>> THEN 0
    ELSE (IF Head(items) \in DOMAIN catalog THEN catalog[Head(items)] ELSE 0)
         + CatalogSum(catalog, Tail(items))

RawSum(c) == CatalogSum(session_state.all_items, c.args.selected_items)

\* The decimal constants the claims name, as doubles.
Claimed_0_8 == Lit(8, 10)
Claimed_1_5 == Lit(15, 10)
Claimed_0_1 == Lit(10, 100)
Claimed_0_05 == Lit(5, 100)
Claimed_47_3 == Lit(473, 10)

\* 0.8 x rawSum and 1.5 x rawSum in double precision.
MinBand(c) == DMulInt(RawSum(c), Claimed_0_8)
MaxBand(c) == DMulInt(RawSum(c), Claimed_1_5)

\* clamp(x, lo, hi) as the specification defines it.
ClaimedClamp(x, lo, hi) == IF DLess(x, lo) THEN lo ELSE IF DLess(hi, x) THEN hi ELSE x

\* 1.0 + (0.1 if proteins > 150) + (0.05 if fats > 80) + (0.05 if carbs < 1000)
ClaimedMultiplier(nd) ==
    DAdd(DAdd(DAdd(DInt(1),
                   IF nd["proteins"] > 150 THEN Claimed_0_1 ELSE DInt(0)),
              IF nd["fats"] > 80 THEN Claimed_0_05 ELSE DInt(0)),
         IF nd["carbs"] < 1000 THEN Claimed_0_05 ELSE DInt(0))

ClaimedFallback(c) ==
    ClaimedClamp(DMulInt(RawSum(c), ClaimedMultiplier(c.args.nutrition_data)),
                 MinBand(c), MaxBand(c))

DEq(a, b) == ~DLess(a, b) /\ ~DLess(b, a)

\* C1: for every diet type, well-formed profile, non-empty list of catalog
\* items and budget, the call returns v with 0.8*rawSum <= v <= 1.5*rawSum, on
\* the model path whatever the model predicts and on the fallback path.
C1_Bounds ==
    call # None =>
        LET c == TheCall
        IN  (WellFormed(c) /\ c.args.selected_items # <<>> /\ AllInCatalog(c)) =>
                /\ ~c.raised
                /\ DLeq(MinBand(c), c.returns[1])
                /\ DLeq(c.returns[1], MaxBand(c))

\* A model prediction far above the band was cut down to 1.5*rawSum.
C1_Witness ==
    /\ call # None
    /\ WellFormed(TheCall) /\ AllInCatalog(TheCall)
    /\ TheCall.args.selected_items = <<Milk_1L, Bread_loaf, Eggs_dozen>>
    /\ TheCall.path = "model"
    /\ TheCall.args.predict.value = DInt(100000)
    /\ TheCall.returns = Some(Lit(129, 2))

\* C2: with an empty selected_items list the call returns exactly 0 and does
\* not raise, for every well-formed profile and budget, with a model (whatever
\* it predicts) and on the fallback.
C2_EmptyBasketIsZero ==
    call # None =>
        LET c == TheCall
        IN  (WellFormed(c) /\ c.args.selected_items = <<>>) =>
                ~c.raised /\ DEq(c.returns[1], DInt(0))

\* The model predicted 100000 for an empty basket and 0 came back.
C2_Witness ==
    /\ call # None
    /\ TheCall.args.selected_items = <<>>
    /\ TheCall.path = "model"
    /\ TheCall.args.predict.value = DInt(100000)
    /\ TheCall.returns = Some(DInt(0))

\* The scenario of C3: all of Milk (1L), Bread (loaf), Eggs (dozen), profile
\* proteins 200, fats 50, carbs 1500, no model.
C3_Scenario(c) ==
    /\ session_state.model = None
    /\ c.args.selected_items = <<Milk_1L, Bread_loaf, Eggs_dozen>>
    /\ WellFormed(c)
    /\ c.args.nutrition_data["proteins"] = 200
    /\ c.args.nutrition_data["fats"] = 50
    /\ c.args.nutrition_data["carbs"] = 1500

C3_FallbackFormula ==
    call # None =>
        LET c == TheCall
        IN  (session_state.model = None /\ WellFormed(c)) =>
                ~c.raised /\ c.returns = Some(ClaimedFallback(c))

\* C3 as claimed: without a model the call returns
\* clamp(rawSum * multiplier, 0.8*rawSum, 1.5*rawSum) for all eight
\* combinations of the three conditions, and the scenario returns 47.3.
C3_Original ==
    /\ C3_FallbackFormula
    /\ call # None /\ C3_Scenario(TheCall) => TheCall.returns = Some(Claimed_47_3)

\* The double one unit in the last place above 47.3 (2^-47 for a value in
\* [32, 64)): 47.300000000000004.
OneUlpAbove47_3 ==
    Pos(Normalise([Claimed_47_3.mag EXCEPT ![1] = @ + Pow2(FracBits - 47)]))

\* C3 amended: the formula holds for all eight combinations; the scenario
\* returns 43 * 1.1 rounded to double precision, which is 47.300000000000004,
\* one unit in the last place above the double 47.3.
C3_Amended ==
    /\ C3_FallbackFormula
    /\ call # None /\ C3_Scenario(TheCall) =>
           /\ TheCall.returns = Some(DMulInt(43, Lit(11, 10)))
           /\ TheCall.returns = Some(OneUlpAbove47_3)

\* The scenario was run.
C3_Witness ==
    call # None /\ C3_Scenario(TheCall) /\ TheCall.path = "fallback" /\ ~TheCall.raised

\* C4: a well-formed request never raises; the model's prediction is used
\* exactly when the session holds a model and predict does not raise; in
\* every other case the fallback rawSum * multiplier is used, and a number
\* is returned.
C4_NeverRaises ==
    call # None =>
        LET c == TheCall
            model_answers == session_state.model # None /\ ~c.args.predict.raises
        IN  (WellFormed(c) /\ AllInCatalog(c)) =>
                /\ ~c.raised
                /\ c.returns # None
                /\ (c.path = "model") <=> model_answers
                /\ (c.path = "fallback") <=> ~model_answers
                /\ model_answers =>
                       c.returns = Some(ClaimedClamp(c.args.predict.value,
                                                     MinBand(c), MaxBand(c)))
                /\ ~model_answers => c.returns = Some(ClaimedFallback(c))

\* A model was there, predict raised, and the fallback's number came back.
C4_Witness ==
    /\ call # None
    /\ WellFormed(TheCall) /\ AllInCatalog(TheCall)
    /\ TheCall.args.selected_items # <<>>
    /\ session_state.model # None
    /\ TheCall.args.predict.raises
    /\ TheCall.path = "fallback"
    /\ TheCall.returns = Some(ClaimedFallback(TheCall))

\* C5: an error raised while the feature record is built (the profile has no
\* 'fiber' entry) is caught and routed to the fallback, so the call returns a
\* number.
C5_FeatureErrorsFallBack ==
    call # None =>
        LET c == TheCall
        IN  ("fiber" \notin DOMAIN c.args.nutrition_data
             /\ {"fats", "carbs", "proteins"} \subseteq DOMAIN c.args.nutrition_data) =>
                ~c.raised /\ c.path = "fallback" /\ c.returns # None

\* The catalog with every selected name it does not know added at price 0.
WithUnknownAtZero(catalog, items) ==
    [n \in DOMAIN catalog \cup {items[i] : i \in 1..Len(items)} |->
        IF n \in DOMAIN catalog THEN catalog[n] ELSE 0]

\* C6: a selected name that is no catalog key adds 0 to rawSum, in the
\* fallback base price and in both clamp bounds, and raises nothing; the call
\* returns what it returns when the catalog lists those names at price 0,
\* and Item_Count still counts them.
C6_UnknownItemsAreFree ==
    call # None =>
        LET c == TheCall
            a == c.args
            priced == [session_state EXCEPT
                          !.all_items = WithUnknownAtZero(@, a.selected_items)]
        IN  WellFormed(c) =>
                /\ ~c.raised
                /\ c.returns = predict_basket_price(priced, a.diet_type, a.nutrition_data,
                                   a.selected_items, a.budget, a.predict).returns
                /\ c.path = "fallback" => c.returns = Some(ClaimedFallback(c))
                /\ DLeq(MinBand(c), c.returns[1]) /\ DLeq(c.returns[1], MaxBand(c))
                /\ c.features[1].Item_Count = Len(a.selected_items)

\* 'Milk (1L)' and the unknown 'milk' were selected without a model, and the
\* price of 'Milk (1L)' alone, 15, came back.
C6_Witness ==
    /\ call # None
    /\ TheCall.args.selected_items = <<Milk_1L, milk>>
    /\ TheCall.args.nutrition_data = [proteins |-> 150, fats |-> 80, carbs |-> 1000, fiber |-> 25]
    /\ TheCall.path = "fallback"
    /\ TheCall.returns = Some(DInt(15))
    /\ TheCall.features[1].Item_Count = 2

\* The names of ItemUniverse that contain 'Chicken', 'Eggs' or 'Milk'.
ProteinNames == {Milk_1L, Eggs_dozen, Farm_Eggs_dozen, Chicken_1kg}

\* C7: Has_Protein is 1 if and only if some selected name contains 'Chicken',
\* 'Eggs' or 'Milk' as a case-sensitive substring: 'Protein Bars' alone gives
\* 0, 'Farm Eggs (dozen)' gives 1, 'milk' gives 0, the empty basket gives 0.
C7_HasProtein ==
    (call # None /\ TheCall.features # None) =>
        LET items == TheCall.args.selected_items
            f == TheCall.features[1].Has_Protein
        IN  /\ f = IF \E i \in 1..Len(items) : items[i] \in ProteinNames THEN 1 ELSE 0
            /\ items = <<Protein_Bars>> => f = 0
            /\ items = <<Farm_Eggs_dozen>> => f = 1
            /\ items = <<milk>> => f = 0
            /\ items = <<>> => f = 0

\* 'Farm Eggs (dozen)', where 'Eggs' is not at the start, gave 1.
C7_Witness ==
    /\ call # None /\ TheCall.features # None
    /\ TheCall.args.selected_items = <<Protein_Bars, Farm_Eggs_dozen, milk>>
    /\ TheCall.features[1].Has_Protein = 1

\* The decimal values C12 names, as doubles.
Claimed_1_05 == Lit(105, 100)
Claimed_1_1 == Lit(11, 10)
Claimed_1_15 == Lit(115, 100)
Claimed_1_2 == Lit(12, 10)

\* The double one unit in the last place above a double in [1, 2).
UlpAbove(x) == Pos(Normalise([x.mag EXCEPT ![1] = @ + Pow2(FracBits - 52)]))

\* The three conditions of the fallback, and how many of them hold.
AllThree(nd) == nd["proteins"] > 150 /\ nd["fats"] > 80 /\ nd["carbs"] < 1000
AtThresholds(nd) == nd["proteins"] = 150 /\ nd["fats"] = 80 /\ nd["carbs"] = 1000

\* A call that took the fallback path with a full profile.
FallbackCall == call # None /\ WellFormed(TheCall) /\ TheCall.path = "fallback"

\* C12 as claimed: the thresholds are strict, the multiplier is one of 1.0,
\* 1.05, 1.1, 1.15, 1.2, and it is 1.2 exactly when all three conditions hold.
C12_Original ==
    FallbackCall =>
        LET nd == TheCall.args.nutrition_data
            m == multiplier(nd)
        IN  /\ AtThresholds(nd) => m = DInt(1)
            /\ m \in {DInt(1), Claimed_1_05, Claimed_1_1, Claimed_1_15, Claimed_1_2}
            /\ (m = Claimed_1_2) <=> AllThree(nd)

\* C12 amended: the thresholds are strict and each step applies on its own;
\* the multiplier is one of the doubles 1.0, 1.05, 1.1, 1.1500000000000001
\* (proteins and one more step) and 1.2000000000000002 (all three), the last
\* two one unit in the last place above 1.15 and 1.2; it is the greatest of
\* them exactly when all three conditions hold.
C12_Amended ==
    FallbackCall =>
        LET nd == TheCall.args.nutrition_data
            m == multiplier(nd)
        IN  /\ AtThresholds(nd) => m = DInt(1)
            /\ m = ClaimedMultiplier(nd)
            /\ m \in {DInt(1), Claimed_1_05, Claimed_1_1,
                      UlpAbove(Claimed_1_15), UlpAbove(Claimed_1_2)}
            /\ (m = UlpAbove(Claimed_1_2)) <=> AllThree(nd)
            /\ (m = UlpAbove(Claimed_1_15)) <=>
                   /\ nd["proteins"] > 150
                   /\ (nd["fats"] > 80) # (nd["carbs"] < 1000)
            /\ ~TheCall.raised /\ TheCall.returns = Some(DMulInt(RawSum(TheCall), m))

\* The fallback ran on the profile that sits on all three thresholds and
\* returned the raw sum of a non-empty basket.
C12_Witness ==
    /\ FallbackCall
    /\ AtThresholds(TheCall.args.nutrition_data)
    /\ TheCall.args.selected_items # <<>>
    /\ TheCall.returns = Some(DInt(RawSum(TheCall)))

\* What C13 says of a fallback call, for a multiplier range [1.0, top]: the
\* multiplier lies in the range, the clamp leaves rawSum * multiplier as it
\* is, and the result is not below rawSum.
ClampIsIdle(top) ==
    FallbackCall =>
        LET m == multiplier(TheCall.args.nutrition_data)
            raw == RawSum(TheCall)
        IN  /\ DLeq(DInt(1), m) /\ DLeq(m, top)
            /\ DLeq(Claimed_0_8, m) /\ DLeq(m, Claimed_1_5)
            /\ ~TheCall.raised
            /\ TheCall.returns = Some(DMulInt(raw, m))
            /\ DLeq(MinBand(TheCall), DMulInt(raw, m))
            /\ DLeq(DMulInt(raw, m), MaxBand(TheCall))
            /\ DLeq(DInt(raw), TheCall.returns[1])

\* C13 as claimed: on the fallback path the multiplier lies in [1.0, 1.2],
\* so the clamp never changes the value: the call returns exactly
\* rawSum * multiplier, which is never below rawSum.
C13_Original == ClampIsIdle(Claimed_1_2)

\* C13 amended: the same with the multiplier in [1.0, 1.2000000000000002],
\* whose upper end is one unit in the last place above 1.2.
C13_Amended == ClampIsIdle(UlpAbove(Claimed_1_2))

\* A fallback call on a basket that costs something, with all three steps
\* applied: the result is above rawSum and inside the band.
C13_Witness ==
    /\ FallbackCall
    /\ AllThree(TheCall.args.nutrition_data)
    /\ RawSum(TheCall) > 0
    /\ DLess(DInt(RawSum(TheCall)), TheCall.returns[1])
    /\ DLess(TheCall.returns[1], MaxBand(TheCall))

\* ------------------------------------------------------------------------
\* the session: one action per run of main() (src/Capstone.py)
\* ------------------------------------------------------------------------

\* Chat prompts a session may send; feedback rows it may log.
MaxChat == 1
MaxFeedback == 1

LoginNames == {"student1", "amina"}
LoginPasswords == {"studentpass", "pw"}

\* Sign-up forms: a new account; passwords that differ; an empty first name;
\* the seeded username.
SignupForms ==
    {[first_name |-> "Amina", last_name |-> "Alami", username |-> "amina",
      phone |-> "0600000000", password |-> "pw", confirm_password |-> "pw"],
     [first_name |-> "Amina", last_name |-> "Alami", username |-> "amina",
      phone |-> "0600000000", password |-> "pw", confirm_password |-> "pwx"],
     [first_name |-> "", last_name |-> "Alami", username |-> "amina",
      phone |-> "0600000000", password |-> "pw", confirm_password |-> "pw"],
     [first_name |-> "Amina", last_name |-> "Alami", username |-> "student1",
      phone |-> "0600000000", password |-> "pw", confirm_password |-> "pw"]}

\* What the profile widgets are set to; which boxes are ticked, in the
\* catalog's order.
ProfileEdits == {[diet_type |-> "Balanced", proteins |-> 120]}
TickedLists == {<<>>, <<Milk_1L, Bread_loaf>>}

\* The "Select" button pressed: the basket with a fixed price.
SelectedKeys == {"Breakfast_Basket"}

\* What model.predict does in a session run: with no model the call on None
\* raises; a model returns a price far above the basket's band.
SessionPredicts(state) ==
    IF state.model = None THEN {[raises |-> TRUE, value |-> DInt(0)]}
    ELSE {[raises |-> FALSE, value |-> DInt(100000)]}

PickupLocations == {"Market Hub"}
ChatPrompts == {"delivery"}
Dorm == <<"D", "o", "r", "m">>
Addresses == {<<>>, <<" ">>, Dorm}

\* What the environment does to setup_app in a run: nothing to choose once
\* the session is set up.
SetupEnvs(state) ==
    IF needs_setup(state) THEN [load_ok : BOOLEAN, outcome : CreateOutcomes]
    ELSE {[load_ok |-> TRUE, outcome |-> "ok"]}

\* main() starts with setup_app().
Begin(env) == setup_app(session_state, disk, init_log, env.load_ok, env.outcome)

\* A handler that changes the session state only.
Plain(b, state) ==
    [state |-> state, disk |-> b.disk, call |-> None, raised |-> FALSE, error |-> ""]

\* A handler that may refuse its input with st.error(error).
Checked(b, state, error) == [Plain(b, state) EXCEPT !.error = error]

\* The end of a run: b is what setup_app left, h what the page's handler
\* left.  An exception escaping setup_app ends the run before any page.
Commit(b, handled) ==
    \E h \in {IF b.raised THEN Plain(b, b.state) ELSE handled} :
        /\ session_state' = h.state
        /\ disk' = h.disk
        /\ init_log' = b.log
        /\ call' = h.call
        /\ screen' = IF b.raised \/ h.raised THEN "exception" ELSE page(h.state)
        /\ notice' = h.error

Init ==
    /\ session_state = <<>>
    /\ disk \in Disks
    /\ init_log = <<>>
    /\ call = None
    /\ screen = "blank"
    /\ notice = ""

\* The browser opens the app, or the user reruns the script.
Rerun ==
    \E env \in SetupEnvs(session_state) :
        \E b \in {Begin(env)} : Commit(b, Plain(b, rerun(b.state)))

SignupSubmit ==
    /\ screen = "signup"
    /\ \E env \in SetupEnvs(session_state), form \in SignupForms :
        \E b \in {Begin(env)} : Commit(b, Checked(b, signup_submit(b.state, form), signup_error(b.state, form)))

BackToLogin ==
    /\ screen = "signup"
    /\ \E env \in SetupEnvs(session_state) :
        \E b \in {Begin(env)} : Commit(b, Plain(b, back_to_login(b.state)))

LoginSubmit ==
    /\ screen = "login"
    /\ \E env \in SetupEnvs(session_state), u \in LoginNames, p \in LoginPasswords :
        \E b \in {Begin(env)} : Commit(b, Checked(b, login_submit(b.state, u, p), login_error(b.state, u, p)))

GoToSignup ==
    /\ screen = "login"
    /\ \E env \in SetupEnvs(session_state) :
        \E b \in {Begin(env)} : Commit(b, Plain(b, go_to_signup(b.state)))

CreateCustomBasket ==
    /\ screen = "basket_options"
    /\ \E env \in SetupEnvs(session_state) :
        \E b \in {Begin(env)} : Commit(b, Plain(b, create_custom_basket(b.state)))

BrowseBaskets ==
    /\ screen = "basket_options"
    /\ \E env \in SetupEnvs(session_state) :
        \E b \in {Begin(env)} : Commit(b, Plain(b, browse_baskets(b.state)))

EditCustomBasket ==
    /\ screen = "custom_basket"
    /\ \E env \in SetupEnvs(session_state), e \in ProfileEdits, ticked \in TickedLists :
        \E b \in {Begin(env)} :
            Commit(b, Plain(b, edit_custom_basket(b.state, e.diet_type, e.proteins, ticked)))

PredictClick ==
    /\ screen = "custom_basket"
    /\ \E env \in SetupEnvs(session_state), predict \in SessionPredicts(session_state) :
        \E b \in {Begin(env)} :
            \E r \in {predict_click(b.state, predict)} :
                Commit(b, [state |-> r.state, disk |-> b.disk, call |-> r.call,
                           raised |-> r.call # None /\ r.call[1].raised,
                           error |-> predict_error(b.state)])

BackToOptions ==
    /\ screen = "custom_basket"
    /\ \E env \in SetupEnvs(session_state) :
        \E b \in {Begin(env)} : Commit(b, Plain(b, back_to_options(b.state)))

SelectBasket ==
    /\ screen = "existing_baskets"
    /\ \E env \in SetupEnvs(session_state), key \in SelectedKeys :
        \E b \in {Begin(env)} : Commit(b, Plain(b, select_basket(b.state, key)))

BackFromBaskets ==
    /\ screen = "existing_baskets"
    /\ \E env \in SetupEnvs(session_state) :
        \E b \in {Begin(env)} : Commit(b, Plain(b, back_from_baskets(b.state)))

ConfirmDeliveryOptions ==
    /\ screen = "delivery_choice"
    /\ \E env \in SetupEnvs(session_state), is_express \in BOOLEAN, chill_bag \in BOOLEAN :
        \E b \in {Begin(env)} :
            Commit(b, Plain(b, confirm_delivery_options(b.state, is_express, chill_bag)))

ConfirmBikeSyncPickup ==
    /\ screen = "delivery_choice"
    /\ \E env \in SetupEnvs(session_state), loc \in PickupLocations :
        \E b \in {Begin(env)} : Commit(b, Plain(b, confirm_bikesync_pickup(b.state, loc)))

ChatPrompt ==
    /\ screen = "delivery_choice"
    /\ Len(session_state.chat_messages) < 1 + 2 * MaxChat
    /\ \E env \in SetupEnvs(session_state), prompt \in ChatPrompts :
        \E b \in {Begin(env)} : Commit(b, Plain(b, chat_prompt(b.state, prompt)))

PlaceOrder ==
    /\ screen = "order_confirmation"
    /\ \E env \in SetupEnvs(session_state), address \in Addresses :
        \E b \in {Begin(env)} : Commit(b, Checked(b, place_order(b.state, address),
                           place_order_error(b.state, address)))

BackFromConfirmation ==
    /\ screen = "order_confirmation"
    /\ \E env \in SetupEnvs(session_state) :
        \E b \in {Begin(env)} : Commit(b, Plain(b, back_from_confirmation(b.state)))

ReceivedBasket ==
    /\ screen = "confirmed"
    /\ ~session_state.delivery_completed
    /\ \E env \in SetupEnvs(session_state) :
        \E b \in {Begin(env)} : Commit(b, Plain(b, received_basket(b.state)))

SubmitFeedback ==
    /\ screen = "confirmed"
    /\ session_state.delivery_completed
    /\ Len(disk.feedback) < MaxFeedback
    /\ \E env \in SetupEnvs(session_state), append_ok \in BOOLEAN :
        \E b \in {Begin(env)} :
            Commit(b, [state |-> b.state,
                       disk |-> log_feedback(b.state, b.disk, 5, "", append_ok),
                       call |-> None, raised |-> FALSE, error |-> ""])

CallDriver ==
    /\ screen = "confirmed"
    /\ \E env \in SetupEnvs(session_state) :
        \E b \in {Begin(env)} : Commit(b, Plain(b, call_driver(b.state)))

StartNewOrder ==
    /\ screen = "confirmed"
    /\ \E env \in SetupEnvs(session_state) :
        \E b \in {Begin(env)} : Commit(b, Plain(b, start_new_order(b.state)))

Logout ==
    /\ screen \notin {"blank", "exception", "login", "signup"}
    /\ \E env \in SetupEnvs(session_state) :
        \E b \in {Begin(env)} : Commit(b, Plain(b, logout(b.state)))

Next ==
    \/ Rerun
    \/ SignupSubmit \/ BackToLogin \/ LoginSubmit \/ GoToSignup
    \/ CreateCustomBasket \/ BrowseBaskets
    \/ EditCustomBasket \/ PredictClick \/ BackToOptions
    \/ SelectBasket \/ BackFromBaskets
    \/ ConfirmDeliveryOptions \/ ConfirmBikeSyncPickup \/ ChatPrompt
    \/ PlaceOrder \/ BackFromConfirmation
    \/ ReceivedBasket \/ SubmitFeedback \/ CallDriver \/ StartNewOrder
    \/ Logout

Spec == Init /\ [][Next]_vars

\* The session from the end of its first run on, started in a fresh
\* directory where create_sample_model succeeded: the page flow without the
\* variety of the first run.
FlowInit ==
    \E r \in {setup_app(<<>>, FreshDisk, <<>>, TRUE, "ok")} :
        /\ session_state = r.state
        /\ disk = r.disk
        /\ init_log = r.log
        /\ call = None
        /\ screen = page(r.state)
        /\ notice = ""

SpecFlow == FlowInit /\ [][Next]_vars

\* ------------------------------------------------------------------------
\* src/BeldyConnect.py: its session and pages, one action per run of main()
\* ------------------------------------------------------------------------

\* The dict setup_app of src/BeldyConnect.py stores on a session's first run:
\* show_login starts False, there is no delivery_completed key, and the
\* catalog has the first fifteen items.
bc_setup_defaults ==
    [initialized |-> TRUE,
     logged_in |-> FALSE,
     username |-> None,
     show_signup |-> FALSE,
     show_login |-> FALSE,
     show_feedback |-> FALSE,
     order_confirmed |-> FALSE,
     selected_basket |-> None,
     order_address |-> <<>>,
     custom_basket |-> <<>>,
     show_custom_basket |-> FALSE,
     show_existing_baskets |-> FALSE,
     delivery_details |-> None,
     chat_messages |-> <<>>,
     show_contact_driver |-> FALSE,
     users |-> [student1 |-> [password |-> "studentpass", first_name |-> "Salma",
                              last_name |-> "Sabri", phone |-> "0628355884"]],
     all_items |-> [i \in {Vegetables_1kg, Fruits_1kg, Cheese_250g, Yogurt, Milk_1L,
                           Chicken_1kg, Eggs_dozen, Bread_loaf, Rice_1kg,
                           Energy_Balls, Protein_Bars, Dried_Fruits, Granola_Bars,
                           Nuts_200g, Dark_Chocolate} |-> all_items_catalog[i]],
     diet_type |-> "Balanced",
     weekly_proteins |-> 120,
     weekly_carbs |-> 300,
     weekly_fats |-> 70,
     weekly_fiber |-> 25,
     budget_slider |-> 200,
     model |-> None,
     predicted_price |-> DInt(0),
     last_calculation_hash |-> None,
     current_basket_hash |-> None]

\* What main() and student_dashboard render for a session state.  A basket
\* page is followed by show_order_confirmation when a basket is selected
\* ("+confirmation").  The order summary evaluates selected_basket['price'],
\* which raises on None.
bc_page(state) ==
    IF ~state.logged_in
    THEN IF state.show_signup THEN "bc_signup" ELSE "bc_login"
    ELSE IF state.order_confirmed
    THEN IF ~Truthy(state.delivery_details) THEN "bc_delivery_choice"
         ELSE IF state.selected_basket = None THEN "bc_exception"
         ELSE "bc_order_summary"
    ELSE IF state.show_custom_basket
    THEN IF Truthy(state.selected_basket) THEN "bc_custom_basket+confirmation"
         ELSE "bc_custom_basket"
    ELSE IF state.show_existing_baskets
    THEN IF Truthy(state.selected_basket) THEN "bc_existing_baskets+confirmation"
         ELSE "bc_existing_baskets"
    ELSE IF Truthy(state.selected_basket) THEN "bc_basket_options+confirmation"
         ELSE "bc_basket_options"

BCScreens ==
    {"bc_signup", "bc_login", "bc_delivery_choice", "bc_exception",
     "bc_order_summary", "bc_custom_basket", "bc_custom_basket+confirmation",
     "bc_existing_baskets", "bc_existing_baskets+confirmation",
     "bc_basket_options", "bc_basket_options+confirmation"}

\* The pages that end with show_order_confirmation.
BCWithConfirmation ==
    {"bc_custom_basket+confirmation", "bc_existing_baskets+confirmation",
     "bc_basket_options+confirmation"}

\* The pages that hold show_delivery_choice.
BCWithDeliveryChoice == {"bc_delivery_choice", "bc_order_summary"}

\* The end of a run whose handler called st.rerun(): the page is rendered
\* from the state the handler left.
BCRerun(state) ==
    /\ session_state' = state
    /\ screen' = bc_page(state)
    /\ call' = None
    /\ notice' = ""
    /\ UNCHANGED <<disk, init_log>>

\* The end of a run whose handler did not call st.rerun(): the page was
\* rendered from the state the run began with.
BCStay(state, error) ==
    /\ session_state' = state
    /\ screen' = bc_page(session_state)
    /\ call' = None
    /\ notice' = error
    /\ UNCHANGED <<disk, init_log>>

\* A session of src/BeldyConnect.py after its first run in a fresh
\* directory, where create_sample_model succeeded.
BCInit ==
    \E r \in {initialize_model(bc_setup_defaults, FreshDisk, <<>>, TRUE, "ok")} :
        /\ session_state = r.state
        /\ disk = r.disk
        /\ init_log = r.log
        /\ call = None
        /\ screen = bc_page(r.state)
        /\ notice = ""

\* A run with no widget event.
BC_Rerun ==
    /\ screen \in BCScreens
    /\ BCStay(session_state, "")

\* signup_page, the Sign Up form.
BC_SignUp ==
    /\ screen = "bc_signup"
    /\ \E form \in SignupForms :
        IF form.password # form.confirm_password
        THEN BCStay(session_state, "Passwords don't match!")
        ELSE IF form.username \in DOMAIN session_state.users
        THEN BCStay(session_state, "Username already exists!")
        ELSE BCRerun(Update(session_state,
                [users |-> (form.username :> [password |-> form.password,
                                             first_name |-> form.first_name,
                                             last_name |-> form.last_name,
                                             phone |-> form.phone])
                           @@ session_state.users,
                 show_login |-> TRUE]))

\* signup_page, "Back to Login".
BC_BackToLogin ==
    /\ screen = "bc_signup"
    /\ BCRerun(Update(session_state, [show_signup |-> FALSE]))

\* login_page, "Login".
bc_login_submit(state, username, password) ==
    IF username \in DOMAIN state.users /\ state.users[username].password = password
    THEN Update(state,
            [logged_in |-> TRUE,
             username |-> Some(username),
             user_info |-> state.users[username],
             show_custom_basket |-> FALSE,
             show_existing_baskets |-> FALSE,
             selected_basket |-> None])
    ELSE state

\* login_page, "Login": the st.error shown, "" when the login passes (and
\* the handler calls st.rerun()).
bc_login_error(state, username, password) ==
    IF username \in DOMAIN state.users /\ state.users[username].password = password
    THEN ""
    ELSE "Invalid credentials"

\* login_page, a run in which "Login" was pressed.
BC_Login ==
    /\ screen = "bc_login"
    /\ \E username \in LoginNames, password \in LoginPasswords :
        IF bc_login_error(session_state, username, password) = ""
        THEN BCRerun(bc_login_submit(session_state, username, password))
        ELSE BCStay(bc_login_submit(session_state, username, password),
                    bc_login_error(session_state, username, password))

\* login_page, "Go to Sign Up".
BC_GoToSignUp ==
    /\ screen = "bc_login"
    /\ BCRerun(Update(session_state, [show_signup |-> TRUE]))

\* show_basket_options, "Customize Your Basket".
BC_CustomizeYourBasket ==
    /\ screen \in {"bc_basket_options", "bc_basket_options+confirmation"}
    /\ BCRerun(Update(session_state, [show_custom_basket |-> TRUE,
                                      show_existing_baskets |-> FALSE,
                                      selected_basket |-> None,
                                      custom_basket |-> <<>>]))

\* show_basket_options, "Choose Existing Basket".
BC_ChooseExistingBasket ==
    /\ screen \in {"bc_basket_options", "bc_basket_options+confirmation"}
    /\ BCRerun(Update(session_state, [show_existing_baskets |-> TRUE,
                                      show_custom_basket |-> FALSE,
                                      selected_basket |-> None]))

\* show_custom_basket, the widgets: every run stores their values.
BC_EditCustomBasket ==
    /\ screen \in {"bc_custom_basket", "bc_custom_basket+confirmation"}
    /\ \E e \in ProfileEdits, ticked \in TickedLists :
        BCStay(edit_custom_basket(session_state, e.diet_type, e.proteins, ticked), "")

\* show_custom_basket, "Predict Basket Price".
BC_PredictBasketPrice ==
    /\ screen \in {"bc_custom_basket", "bc_custom_basket+confirmation"}
    /\ IF session_state.custom_basket = <<>>
       THEN BCStay(session_state, "Please select at least one item!")
       ELSE \E predict \in SessionPredicts(session_state) :
            \E c \in {predict_basket_price(session_state, session_state.diet_type,
                                           session_nutrition_data(session_state),
                                           session_state.custom_basket,
                                           session_state.budget_slider, predict)} :
                /\ session_state' =
                       IF c.raised THEN session_state
                       ELSE Update(session_state,
                               [predicted_price |-> c.returns[1],
                                selected_basket |->
                                    Some([name |-> "Custom Basket",
                                          items |-> session_state.custom_basket,
                                          price |-> c.returns[1]])])
                /\ screen' = IF c.raised THEN "bc_exception" ELSE bc_page(session_state')
                /\ call' = Some(c)
                /\ notice' = ""
                /\ UNCHANGED <<disk, init_log>>

\* show_custom_basket, "Back to Options".
BC_BackFromCustomBasket ==
    /\ screen \in {"bc_custom_basket", "bc_custom_basket+confirmation"}
    /\ BCRerun(Update(session_state, [show_custom_basket |-> FALSE]))

\* show_existing_baskets, "Select <name>": the price is the sum over the
\* catalog; the run goes on without st.rerun().
BC_SelectBasket ==
    /\ screen \in {"bc_existing_baskets", "bc_existing_baskets+confirmation"}
    /\ \E key \in {"Chefs_Basket", "Snackers_Basket", "Balanced_Basket"} :
        BCStay(Update(session_state,
                   [selected_basket |->
                       Some([name |-> BASKETS[key].name,
                             items |-> BASKETS[key].items,
                             price |-> DInt(price_sum(session_state.all_items,
                                                      BASKETS[key].items))])]),
               "")

\* show_existing_baskets, "Back to Options".
BC_BackFromExistingBaskets ==
    /\ screen \in {"bc_existing_baskets", "bc_existing_baskets+confirmation"}
    /\ BCRerun(Update(session_state, [show_existing_baskets |-> FALSE]))

\* show_order_confirmation, "Confirm Order".
BC_ConfirmOrder ==
    /\ screen \in BCWithConfirmation
    /\ \E address \in Addresses :
        IF strip(address) = <<>>
        THEN BCStay(session_state, "Please enter your address!")
        ELSE IF ~Truthy(session_state.selected_basket)
        THEN BCStay(session_state, "Please select a basket first!")
        ELSE BCRerun(Update(session_state, [order_confirmed |-> TRUE,
                                            order_address |-> address]))

\* show_order_confirmation, "Logout".
BC_Logout ==
    /\ screen \in BCWithConfirmation
    /\ BCRerun(Update(session_state, [show_feedback |-> TRUE, logged_in |-> FALSE]))

\* show_order_confirmation, the feedback form shown after a logout.
BC_FeedbackForm ==
    /\ screen \in BCWithConfirmation
    /\ session_state.show_feedback
    /\ BCRerun(Update(session_state, [show_feedback |-> FALSE]))

\* show_traditional_delivery, "Confirm Traditional Delivery".
BC_ConfirmTraditionalDelivery ==
    /\ screen \in BCWithDeliveryChoice
    /\ \E is_express \in BOOLEAN, chill_bag \in BOOLEAN :
        BCStay(Update(session_state,
                   [delivery_details |->
                       Some([location |-> "Main Gate",
                             notes |-> "",
                             details |-> "Primary entrance (Security booth)",
                             is_express |-> is_express,
                             time_window |-> IF is_express THEN "slots 0-1" ELSE "slots 2-3",
                             date |-> "today",
                             eco_packaging |-> TRUE,
                             chill_bag |-> chill_bag,
                             signature_required |-> TRUE,
                             method |-> "Traditional",
                             fees |-> (IF is_express THEN 20 ELSE 0)
                                      + (IF chill_bag THEN 5 ELSE 0)])]),
               "")

\* show_bikesync_delivery, "Confirm BikeSync Pickup".
BC_ConfirmBikeSyncPickup ==
    /\ screen \in BCWithDeliveryChoice
    /\ BCStay(Update(session_state,
                  [delivery_details |->
                      Some([method |-> "BikeSync",
                            pickup_time |-> "Booked via BikeSync website",
                            location |-> "Market Hub",
                            fees |-> 20])]),
              "")

\* show_delivery_tracker, "Call Driver".
BC_CallDriver ==
    /\ screen \in BCWithDeliveryChoice
    /\ BCStay(Update(session_state, [show_contact_driver |-> TRUE]), "")

\* show_support_options, the chat input: the prompt is appended.
BC_Chat ==
    /\ screen \in BCWithDeliveryChoice
    /\ Len(session_state.chat_messages) < MaxChat
    /\ \E prompt \in ChatPrompts :
        BCRerun(Update(session_state,
            [chat_messages |-> Append(session_state.chat_messages,
                                      [role |-> "user", content |-> prompt])]))

\* student_dashboard, "I received my basket".
BC_ReceivedBasket ==
    /\ screen = "bc_order_summary"
    /\ ~PyGet(session_state, "delivery_completed", FALSE)
    /\ BCRerun(Update(session_state, [delivery_completed |-> TRUE]))

\* student_dashboard, the feedback form after delivery: log_feedback.
BC_SubmitFeedback ==
    /\ screen = "bc_order_summary"
    /\ PyGet(session_state, "delivery_completed", FALSE)
    /\ Len(disk.feedback) < MaxFeedback
    /\ \E append_ok \in BOOLEAN :
        /\ disk' = log_feedback(session_state, disk, 5, "", append_ok)
        /\ screen' = bc_page(session_state)
        /\ call' = None
        /\ notice' = ""
        /\ UNCHANGED <<session_state, init_log>>

\* "Start New Order" leaving order_confirmed as it is.
BC_StartNewOrder_keeping_order_confirmed ==
    /\ screen = "bc_order_summary"
    /\ BCRerun(Update(session_state, [selected_basket |-> None,
                                      show_custom_basket |-> FALSE,
                                      show_existing_baskets |-> FALSE,
                                      delivery_details |-> None,
                                      delivery_completed |-> FALSE]))

\* student_dashboard, "Start New Order".
BC_StartNewOrder ==
    /\ screen = "bc_order_summary"
    /\ BCRerun(Update(session_state, [order_confirmed |-> FALSE,
                                      selected_basket |-> None,
                                      show_custom_basket |-> FALSE,
                                      show_existing_baskets |-> FALSE,
                                      delivery_details |-> None,
                                      delivery_completed |-> FALSE]))

BCNext ==
    \/ BC_Rerun
    \/ BC_SignUp \/ BC_BackToLogin \/ BC_Login \/ BC_GoToSignUp
    \/ BC_CustomizeYourBasket \/ BC_ChooseExistingBasket
    \/ BC_EditCustomBasket \/ BC_PredictBasketPrice \/ BC_BackFromCustomBasket
    \/ BC_SelectBasket \/ BC_BackFromExistingBaskets
    \/ BC_ConfirmOrder \/ BC_Logout \/ BC_FeedbackForm
    \/ BC_ConfirmTraditionalDelivery \/ BC_ConfirmBikeSyncPickup
    \/ BC_CallDriver \/ BC_Chat
    \/ BC_ReceivedBasket \/ BC_SubmitFeedback \/ BC_StartNewOrder

SpecBC == BCInit /\ [][BCNext]_vars

\* ------------------------------------------------------------------------
\* src/Beldy-Connect.py: the order confirmation and its notification
\* ------------------------------------------------------------------------
\* setup_app stores the same defaults as src/BeldyConnect.py
\* (bc_setup_defaults).  Of this variant the model has the login, the
\* existing baskets, the order confirmation, the delivery choice of a
\* confirmed order, and the ways back; call holds the call of
\* send_order_notification the last run made.

\* send_order_notification: building the body raises when user_info,
\* selected_basket or delivery_details is missing; a failure of the SMTP
\* exchange is caught inside and printed.
send_order_notification(state, smtp_ok) ==
    IF \/ "user_info" \notin DOMAIN state
       \/ state.selected_basket = None
       \/ state.delivery_details = None
    THEN [function |-> "send_order_notification", raised |-> TRUE, sent |-> FALSE]
    ELSE [function |-> "send_order_notification", raised |-> FALSE, sent |-> smtp_ok]

\* The show_order_confirmation defined at line 764, "Confirm Order".
show_order_confirmation_at_764(state, address, smtp_ok) ==
    IF strip(address) = <<>>
    THEN [state |-> state, call |-> None, error |-> "Please enter your address!"]
    ELSE IF ~Truthy(state.selected_basket)
    THEN [state |-> state, call |-> None, error |-> "Please select a basket first!"]
    ELSE LET placed == Update(state, [order_confirmed |-> TRUE, order_address |-> address])
             c == send_order_notification(placed, smtp_ok)
         IN  [state |-> placed, call |-> Some(c),
              error |-> IF c.raised
                        THEN "Order was placed but couldn't send notification"
                        ELSE ""]

\* The show_order_confirmation defined at line 1137, "Confirm Order".
show_order_confirmation_at_1137(state, address, smtp_ok) ==
    IF strip(address) = <<>>
    THEN [state |-> state, call |-> None, error |-> "Please enter your address!"]
    ELSE IF ~Truthy(state.selected_basket)
    THEN [state |-> state, call |-> None, error |-> "Please select a basket first!"]
    ELSE [state |-> Update(state, [order_confirmed |-> TRUE, order_address |-> address]),
          call |-> None, error |-> ""]

\* What the name show_order_confirmation is bound to when main() runs at the
\* end of the script: the def statement at line 1137 rebinds the name the
\* def statement at line 764 had bound.
show_order_confirmation(state, address, smtp_ok) ==
    show_order_confirmation_at_1137(state, address, smtp_ok)

\* What main() and student_dashboard render.
mail_page(state) ==
    IF ~state.logged_in THEN "m_login"
    ELSE IF state.order_confirmed THEN "m_confirmed"
    ELSE IF state.show_existing_baskets
    THEN IF Truthy(state.selected_basket) THEN "m_existing_baskets+confirmation"
         ELSE "m_existing_baskets"
    ELSE IF Truthy(state.selected_basket) THEN "m_basket_options+confirmation"
         ELSE "m_basket_options"

\* The end of a run: the state it left, the page it rendered, the call of
\* send_order_notification it made, its st.error.
MailRun(state, shown, c, error) ==
    /\ session_state' = state
    /\ screen' = shown
    /\ call' = c
    /\ notice' = error
    /\ UNCHANGED <<disk, init_log>>

MailInit ==
    \E r \in {initialize_model(bc_setup_defaults, FreshDisk, <<>>, TRUE, "ok")} :
        /\ session_state = r.state
        /\ disk = r.disk
        /\ init_log = r.log
        /\ call = None
        /\ screen = mail_page(r.state)
        /\ notice = ""

\* login_page, "Login".
Mail_Login ==
    /\ screen = "m_login"
    /\ \E username \in LoginNames, password \in LoginPasswords :
        IF /\ username \in DOMAIN session_state.users
           /\ session_state.users[username].password = password
        THEN \E s \in {Update(session_state,
                          [logged_in |-> TRUE,
                           username |-> Some(username),
                           user_info |-> session_state.users[username],
                           show_custom_basket |-> FALSE,
                           show_existing_baskets |-> FALSE,
                           selected_basket |-> None])} :
                MailRun(s, mail_page(s), None, "")
        ELSE MailRun(session_state, mail_page(session_state), None, "Invalid credentials")

\* show_basket_options, "Choose Existing Basket".
Mail_ChooseExistingBasket ==
    /\ screen \in {"m_basket_options", "m_basket_options+confirmation"}
    /\ \E s \in {Update(session_state, [show_existing_baskets |-> TRUE,
                                        show_custom_basket |-> FALSE,
                                        selected_basket |-> None])} :
        MailRun(s, mail_page(s), None, "")

\* show_existing_baskets, "Select <name>".
Mail_SelectBasket ==
    /\ screen \in {"m_existing_baskets", "m_existing_baskets+confirmation"}
    /\ \E key \in {"Chefs_Basket", "Snackers_Basket", "Balanced_Basket"} :
        \E s \in {Update(session_state,
                     [selected_basket |->
                         Some([name |-> BASKETS[key].name,
                               items |-> BASKETS[key].items,
                               price |-> DInt(price_sum(session_state.all_items,
                                                        BASKETS[key].items)),
                               image |-> key,
                               icon |-> key]),
                      show_existing_baskets |-> FALSE])} :
            MailRun(s, mail_page(s), None, "")

\* show_order_confirmation, "Confirm Order": st.rerun() follows a placed
\* order, so an st.error shown for a failed notification is lost with it.
Mail_ConfirmOrder ==
    /\ screen \in {"m_existing_baskets+confirmation", "m_basket_options+confirmation"}
    /\ \E address \in Addresses, smtp_ok \in BOOLEAN :
        \E r \in {show_order_confirmation(session_state, address, smtp_ok)} :
            MailRun(r.state, mail_page(r.state), r.call,
                    IF r.state.order_confirmed THEN "" ELSE r.error)

\* "Logout", of show_order_confirmation and of the sidebar.
Mail_Logout ==
    /\ \/ screen \in {"m_existing_baskets+confirmation", "m_basket_options+confirmation"}
       \/ screen = "m_confirmed" /\ Truthy(session_state.selected_basket)
    /\ \E s \in {Update(session_state, [logged_in |-> FALSE, show_feedback |-> TRUE])} :
        MailRun(s, mail_page(s), None, "")

\* show_traditional_delivery, "Confirm Traditional Delivery".
Mail_ConfirmTraditionalDelivery ==
    /\ screen = "m_confirmed"
    /\ \E is_express \in BOOLEAN, chill_bag \in BOOLEAN :
        MailRun(Update(session_state,
                    [delivery_details |->
                        Some([location |-> "Main Gate",
                              notes |-> "",
                              details |-> "Primary entrance (Security booth)",
                              is_express |-> is_express,
                              time_window |-> IF is_express THEN "slots 0-1" ELSE "slots 2-3",
                              date |-> "today",
                              eco_packaging |-> TRUE,
                              chill_bag |-> chill_bag,
                              signature_required |-> TRUE,
                              method |-> "Traditional",
                              fees |-> (IF is_express THEN 20 ELSE 0)
                                       + (IF chill_bag THEN 5 ELSE 0)])]),
                mail_page(session_state), None, "")

\* show_bikesync_delivery, "Confirm BikeSync Pickup".
Mail_ConfirmBikeSyncPickup ==
    /\ screen = "m_confirmed"
    /\ MailRun(Update(session_state,
                   [delivery_details |->
                       Some([method |-> "BikeSync",
                             pickup_time |-> "Booked via BikeSync website",
                             location |-> "Market Hub",
                             fees |-> 20])]),
               mail_page(session_state), None, "")

\* show_delivery_choice, "Go Back to Basket Selection".
Mail_GoBackToBasketSelection ==
    /\ screen = "m_confirmed"
    /\ \E s \in {Update(session_state, [show_custom_basket |-> FALSE,
                                        show_existing_baskets |-> FALSE,
                                        selected_basket |-> None,
                                        delivery_details |-> None])} :
        MailRun(s, mail_page(s), None, "")

\* student_dashboard, "Start New Order".
Mail_StartNewOrder ==
    /\ screen = "m_confirmed"
    /\ \E s \in {Update(session_state, [order_confirmed |-> FALSE,
                                        selected_basket |-> None,
                                        show_custom_basket |-> FALSE,
                                        show_existing_baskets |-> FALSE,
                                        delivery_details |-> None,
                                        delivery_completed |-> FALSE])} :
        MailRun(s, mail_page(s), None, "")

MailNext ==
    \/ Mail_Login
    \/ Mail_ChooseExistingBasket \/ Mail_SelectBasket
    \/ Mail_ConfirmOrder \/ Mail_Logout
    \/ Mail_ConfirmTraditionalDelivery \/ Mail_ConfirmBikeSyncPickup
    \/ Mail_GoBackToBasketSelection \/ Mail_StartNewOrder

SpecMail == MailInit /\ [][MailNext]_vars

\* The two variants side by side: a session is one of src/Capstone.py or one
\* of src/BeldyConnect.py, and stays of its variant.
SpecVariants ==
    (FlowInit \/ BCInit) /\ [][(screen \notin BCScreens /\ Next) \/ BCNext]_vars

\* ------------------------------------------------------------------------
\* show_delivery_scheduling (src/Capstone.py; src/BeldyConnect.py has the
\* same statements), one statement of its loops at a time
\* ------------------------------------------------------------------------

\* A datetime is its number of minutes since today's midnight (1440 and more
\* for tomorrow); now is one of today's minutes.
Nows == 0 .. 1439

\* datetime + timedelta(hours=h).
timedelta_hours(t, h) == t + 60 * h

\* datetime.hour, the hour of the day.
hour(t) == (t \div 60) % 24

\* datetime.strftime("%I:%M %p"): the hour on the 12-hour clock, the minute
\* and AM or PM; the date is not part of the text.
strftime_I_M_p(t) ==
    [I |-> IF hour(t) % 12 = 0 THEN 12 ELSE hour(t) % 12,
     M |-> t % 60,
     p |-> IF hour(t) < 12 THEN "AM" ELSE "PM"]

\* A time slot: the text appended to time_slots, and the datetime it was
\* formatted from.
slot(t) == [text |-> strftime_I_M_p(t), datetime |-> t]

\* The session on the delivery-choice page, whose first tab calls
\* show_delivery_scheduling.
SlotsInit ==
    \E r \in {setup_app(<<>>, FreshDisk, <<>>, TRUE, "ok")} :
        \E s \in {select_basket(browse_baskets(login_submit(r.state, "student1", "studentpass")),
                                "Breakfast_Basket")} :
            /\ session_state = s
            /\ disk = r.disk
            /\ init_log = r.log
            /\ call = None
            /\ screen = page(s)
            /\ notice = ""

\* The call: now = datetime.datetime.now(), time_slots = [].
Sched_Call ==
    /\ call = None
    /\ \E now \in Nows :
        call' = Some([now |-> now, i |-> 1, time_slots |-> <<>>, at |-> "for"])
    /\ UNCHANGED <<session_state, disk, init_log, screen, notice>>

\* One pass of "for i in range(1, 5)".
Sched_For ==
    /\ call # None
    /\ call[1].at = "for"
    /\ \E c \in {call[1]} :
        \E delivery_time \in {timedelta_hours(c.now, c.i)} :
            call' = Some([c EXCEPT
                !.time_slots = IF hour(delivery_time) < 22
                               THEN Append(@, slot(delivery_time))
                               ELSE @,
                !.i = @ + 1,
                !.at = IF c.i = 4 THEN "while" ELSE "for"])
    /\ UNCHANGED <<session_state, disk, init_log, screen, notice>>

\* One pass of "while len(time_slots) < 4".
Sched_While ==
    /\ call # None
    /\ call[1].at = "while"
    /\ Len(call[1].time_slots) < 4
    /\ \E c \in {call[1]} :
        \E default_time \in {timedelta_hours(c.now, Len(c.time_slots) + 1)} :
            call' = Some([c EXCEPT !.time_slots = Append(@, slot(default_time))])
    /\ UNCHANGED <<session_state, disk, init_log, screen, notice>>

\* The loop is left and st.radio builds its two options from time_slots[0]
\* to time_slots[3]; an index out of range raises IndexError.
Sched_Radio ==
    /\ call # None
    /\ call[1].at = "while"
    /\ ~(Len(call[1].time_slots) < 4)
    /\ call' = Some([call[1] EXCEPT
            !.at = IF Len(call[1].time_slots) >= 4 THEN "radio" ELSE "IndexError"])
    /\ UNCHANGED <<session_state, disk, init_log, screen, notice>>

SlotsNext == Sched_Call \/ Sched_For \/ Sched_While \/ Sched_Radio

SpecSlots == SlotsInit /\ [][SlotsNext]_vars

\* ------------------------------------------------------------------------
\* log_feedback on its own: the feedback form of a delivered order,
\* submitted again and again
\* ------------------------------------------------------------------------

\* The most rows feedback.csv grows to.
MaxRows == 2

\* The slider's values, and what is typed into the text area.
Ratings == 1 .. 5
Comments == {"", "late"}

\* The confirmed order dashboard of a delivered order, feedback.csv not yet
\* written.
FeedbackInit ==
    \E r \in {setup_app(<<>>, FreshDisk, <<>>, TRUE, "ok")} :
        \E s \in {received_basket(place_order(
                      confirm_delivery_options(
                          select_basket(browse_baskets(
                              login_submit(r.state, "student1", "studentpass")),
                              "Breakfast_Basket"),
                          FALSE, FALSE),
                      Dorm))} :
            /\ session_state = s
            /\ disk = r.disk
            /\ init_log = r.log
            /\ call = None
            /\ screen = page(s)
            /\ notice = ""

\* show_confirmed_order_dashboard, "Submit Feedback": the form stays on the
\* page (no st.rerun()), so it can be submitted again.
FeedbackSubmit ==
    /\ screen = "confirmed"
    /\ session_state.delivery_completed
    /\ Len(disk.feedback) < MaxRows
    /\ \E env \in SetupEnvs(session_state), rating \in Ratings, comments \in Comments,
          append_ok \in BOOLEAN :
        \E b \in {Begin(env)} :
            Commit(b, [state |-> b.state,
                       disk |-> log_feedback(b.state, b.disk, rating, comments, append_ok),
                       call |-> None, raised |-> FALSE, error |-> ""])

FeedbackNext == FeedbackSubmit

SpecFeedback == FeedbackInit /\ [][FeedbackNext]_vars

\* ------------------------------------------------------------------------
\* the session's claims (checked under Spec)
\* ------------------------------------------------------------------------

\* How often entry e stands in the log.
Occurrences(log, e) == Cardinality({i \in DOMAIN log : log[i] = e})

\* Model initialisation has come to its end: the artifact was loaded, or
\* create_sample_model returned or raised.
InitEnded ==
    /\ init_log # <<>>
    /\ init_log[Len(init_log)] \in {"loaded", "create_returned", "create_raised"}

\* C8: within one session initialize_model, and through it
\* create_sample_model, runs at most once; it runs exactly in the run that
\* sets 'initialized'; it has ended before any call of predict_basket_price;
\* no later run enters it again, also when it left the model None.
C8_InitializedOnce ==
    /\ Occurrences(init_log, "initialize_model") <= 1
    /\ Occurrences(init_log, "create_sample_model") <= 1
    /\ ("initialized" \in DOMAIN session_state) <=> (init_log # <<>>)
    /\ init_log # <<>> => InitEnded
    /\ call # None => InitEnded /\ Occurrences(init_log, "initialize_model") = 1

\* The first attempt raised and left the model None; runs followed it, and
\* the last of them called predict_basket_price.
C8_Witness ==
    /\ call # None
    /\ session_state.model = None
    /\ init_log[Len(init_log)] = "create_raised"

C10_ModelAndCatalogFrozen ==
    [][("initialized" \in DOMAIN session_state) =>
           /\ session_state'.model = session_state.model
           /\ session_state'.all_items = session_state.all_items]_vars

\* A session that has seen a sign-up, a login, a price prediction, a delivery
\* choice, an order, its feedback and a logout.
C10_Witness ==
    /\ "initialized" \in DOMAIN session_state
    /\ "amina" \in DOMAIN session_state.users
    /\ ~session_state.logged_in
    /\ session_state.order_confirmed
    /\ session_state.selected_basket # None
    /\ session_state.selected_basket[1].name = "Custom Basket"
    /\ session_state.delivery_details # None
    /\ disk.feedback # <<>>
    /\ session_state.model # None
    /\ session_state.all_items = all_items_catalog

\* ------------------------------------------------------------------------
\* the page flow's claims (checked under SpecFlow)
\* ------------------------------------------------------------------------

EmptyBasketError == "Please select at least one item!"

\* C11: "Predict Basket Price" with no item ticked is refused with an error:
\* predict_basket_price is not called and selected_basket and
\* predicted_price stay as they were; so every call the pages make has a
\* non-empty item list whose items are keys of the catalog.
C11_CallsAreWellFormed ==
    call # None =>
        /\ TheCall.args.selected_items # <<>>
        /\ \A i \in DOMAIN TheCall.args.selected_items :
               TheCall.args.selected_items[i] \in DOMAIN session_state.all_items

C11_Refusal ==
    /\ (screen = "custom_basket" /\ session_state.custom_basket = <<>>) => (call' = None)
    /\ (notice' = EmptyBasketError) =>
           /\ session_state.custom_basket = <<>>
           /\ call' = None
           /\ session_state'.selected_basket = session_state.selected_basket
           /\ session_state'.predicted_price = session_state.predicted_price

\* C11, both parts: the calls are well formed in every state, and every run
\* refuses the button on an empty basket.
C11_EmptyBasketRejected == []C11_CallsAreWellFormed /\ [][C11_Refusal]_vars

\* The button was refused while the price of an earlier prediction stood.
C11_Witness ==
    /\ notice = EmptyBasketError
    /\ session_state.predicted_price # DInt(0)
    /\ session_state.selected_basket = None

\* C16: whenever delivery_details is set its fees follow from the confirmed
\* options: for method 'Traditional' they are (20 if Express else 0) +
\* (5 if a chill bag else 0), one of 0, 5, 20, 25; for method 'BikeSync' they
\* are 10; there is no other method and no other fee.
C16_FeesFollowOptions ==
    session_state.delivery_details # None =>
        LET d == session_state.delivery_details[1]
        IN  /\ d.method \in {"Traditional", "BikeSync"}
            /\ d.method = "Traditional" =>
                   /\ d.fees = (IF d.is_express THEN 20 ELSE 0)
                                + (IF d.chill_bag THEN 5 ELSE 0)
                   /\ d.fees \in {0, 5, 20, 25}
            /\ d.method = "BikeSync" => d.fees = 10

\* An order placed with Express delivery and a chill bag: fees of 25.
C16_Witness ==
    /\ session_state.order_confirmed
    /\ session_state.delivery_details # None
    /\ session_state.delivery_details[1].method = "Traditional"
    /\ session_state.delivery_details[1].is_express
    /\ session_state.delivery_details[1].chill_bag
    /\ session_state.delivery_details[1].fees = 25

PlaceOrderErrors ==
    {"Please enter your delivery address!", "Please select a delivery method!"}

\* C17, its invariant: an order that is confirmed has its delivery details
\* and an address that is not blank.
C17_ConfirmedOrderIsComplete ==
    session_state.order_confirmed =>
        /\ session_state.delivery_details # None
        /\ strip(session_state.order_address) # <<>>

\* C17, the handler in every reachable state: a blank address, or no
\* delivery details, gets an error and leaves the session as it is.
C17_Rejects ==
    \A address \in Addresses :
        (strip(address) = <<>> \/ session_state.delivery_details = None) =>
            /\ place_order_error(session_state, address) \in PlaceOrderErrors
            /\ place_order(session_state, address) = session_state

\* C17, every run: order_confirmed turns true only in a run of "Place Order"
\* (the order-confirmation page, no error) that found delivery details and
\* stored an address that is not blank; a run that shows one of the two
\* errors leaves order_confirmed and order_address unchanged.
C17_Run ==
    /\ (~session_state.order_confirmed /\ session_state'.order_confirmed) =>
           /\ screen = "order_confirmation"
           /\ notice' = ""
           /\ session_state.delivery_details # None
           /\ session_state'.delivery_details = session_state.delivery_details
           /\ strip(session_state'.order_address) # <<>>
    /\ (notice' \in PlaceOrderErrors) =>
           /\ session_state'.order_confirmed = session_state.order_confirmed
           /\ session_state'.order_address = session_state.order_address

\* C17: order_confirmed becomes true only through "Place Order" with an
\* address that is not blank while delivery_details is set; a blank address
\* or a missing delivery method is rejected with an error and leaves
\* order_confirmed and order_address unchanged; so in every reachable state
\* order_confirmed implies delivery details and a non-blank address.
C17_OrderNeedsAddressAndDelivery ==
    /\ [](C17_ConfirmedOrderIsComplete /\ C17_Rejects)
    /\ [][C17_Run]_vars

\* A blank address was refused on the order-confirmation page of a user who
\* had placed an order before and started a new one.
C17_Witness ==
    /\ notice = "Please enter your delivery address!"
    /\ screen = "order_confirmation"
    /\ ~session_state.order_confirmed
    /\ session_state.order_address = Dorm

\* C18: in every reachable state order_confirmed implies that selected_basket
\* is not None, whatever the interleaving of login, logout, basket and
\* delivery selection, order placement and new orders.
C18_ConfirmedOrderHasBasket ==
    session_state.order_confirmed => session_state.selected_basket # None

\* C21, the invariant: delivery_completed implies order_confirmed.
C21_CompletedIsConfirmed ==
    session_state.delivery_completed => session_state.order_confirmed

\* C21, every run: feedback.csv is written (log_feedback was called) only in
\* a run that began, and ended, with order_confirmed and delivery_completed
\* both true.
C21_Run ==
    (disk'.feedback # disk.feedback) =>
        /\ screen = "confirmed"
        /\ session_state.order_confirmed /\ session_state.delivery_completed
        /\ session_state'.order_confirmed /\ session_state'.delivery_completed

\* C21: log_feedback is called only in states where order_confirmed and
\* delivery_completed are both true, that is after an order was placed and
\* "I received my basket" pressed; and delivery_completed implies
\* order_confirmed in every reachable state.
C21_FeedbackAfterDelivery == []C21_CompletedIsConfirmed /\ [][C21_Run]_vars

\* Feedback was logged for a delivered order.
C21_Witness ==
    /\ disk.feedback # <<>>
    /\ screen = "confirmed"
    /\ session_state.order_confirmed
    /\ session_state.delivery_completed

\* The keys "Start New Order" leaves alone, as C22 lists them.
C22_Kept == {"logged_in", "username", "user_info", "users", "all_items", "model"}

\* C22, the state "Start New Order" leaves behind: no confirmed order, no
\* basket, no delivery details, no completed delivery, no basket page open.
C22_Cleared(state) ==
    /\ ~state.order_confirmed
    /\ state.selected_basket = None
    /\ state.delivery_details = None
    /\ ~state.delivery_completed
    /\ ~state.show_custom_basket
    /\ ~state.show_existing_baskets

\* C22, the handler in every state that shows its button (the confirmed
\* order dashboard).
C22_Handler ==
    (screen = "confirmed") =>
        \E s \in {start_new_order(session_state)} :
            /\ C22_Cleared(s)
            /\ \A k \in C22_Kept : s[k] = session_state[k]
            /\ page(s) = "basket_options"

\* C22, every run that ends a confirmed order: it is a run of the confirmed
\* order dashboard, it clears the order, keeps the account, the catalogue
\* and the model, and renders the basket-options page.
C22_Run ==
    (session_state.order_confirmed /\ ~session_state'.order_confirmed) =>
        /\ screen = "confirmed"
        /\ C22_Cleared(session_state')
        /\ \A k \in C22_Kept : session_state'[k] = session_state[k]
        /\ screen' = "basket_options"

\* C22: "Start New Order" sets order_confirmed to false, selected_basket to
\* None, delivery_details to None, delivery_completed to false and both
\* basket page flags to false, leaves logged_in, username, user_info, users,
\* all_items and model unchanged, and the next page rendered is the
\* basket-options page.
C22_StartNewOrderClearsOrder == []C22_Handler /\ [][C22_Run]_vars

\* A new order was started after a delivered order: the basket-options page
\* of a logged-in user whose last order's address is still stored.
C22_Witness ==
    /\ screen = "basket_options"
    /\ session_state.logged_in
    /\ session_state.order_address # <<>>
    /\ ~session_state.order_confirmed
    /\ session_state.selected_basket = None
    /\ session_state.delivery_details = None

\* C24, the forms the Sign Up handler is tried on: every field empty or
\* not, the username new or registered, the passwords equal or not.
C24_Forms ==
    [first_name : {"", "Amina"}, last_name : {"", "Alami"},
     username : {"", "amina", "student1"}, phone : {"", "0600000000"},
     password : {"", "pw", "pwx"}, confirm_password : {"", "pw", "pwx"}]

\* C24, a form that passes: five fields filled, the passwords equal, the
\* username not registered.
C24_Passes(state, form) ==
    /\ form.first_name # "" /\ form.last_name # "" /\ form.username # ""
    /\ form.phone # "" /\ form.password # ""
    /\ form.password = form.confirm_password
    /\ form.username \notin DOMAIN state.users

\* C24, every account of users is an account of after, with the same record.
C24_Keeps(users, after) ==
    \A u \in DOMAIN users : u \in DOMAIN after /\ after[u] = users[u]

\* C24, the Sign Up handler on the page that shows it: a form that passes
\* adds its user and nothing else, any other form is refused with an error
\* and leaves users as it is.
C24_Handler ==
    (screen = "signup") =>
        \A form \in C24_Forms :
            \E after \in {signup_submit(session_state, form)} :
                IF C24_Passes(session_state, form)
                THEN /\ signup_error(session_state, form) = ""
                     /\ DOMAIN after.users = DOMAIN session_state.users \cup {form.username}
                     /\ after.users[form.username].password = form.password
                     /\ C24_Keeps(session_state.users, after.users)
                ELSE /\ signup_error(session_state, form) # ""
                     /\ after.users = session_state.users

\* C24, the seeded account.
C24_Seeded ==
    /\ "student1" \in DOMAIN session_state.users
    /\ session_state.users["student1"].password = "studentpass"

\* C24, every run: the accounts there were stay, with their records; users
\* changes only in a run of the sign-up page that showed no error.
C24_Run ==
    /\ C24_Keeps(session_state.users, session_state'.users)
    /\ (session_state'.users # session_state.users) =>
           (screen = "signup" /\ notice' = "")

\* C24: sign-up adds a user only if all five fields are non-empty, the two
\* passwords are equal and the username is not already registered; in every
\* other case users is unchanged; no sequence of actions modifies or removes
\* an existing account (the seeded 'student1' included), so a sign-up never
\* overwrites an existing account's password.
C24_SignUpOnlyAddsAccounts ==
    /\ [](C24_Handler /\ C24_Seeded)
    /\ [][C24_Run]_vars

\* A sign-up under a registered username was refused on the sign-up page,
\* after another account had been created in this session.
C24_Witness ==
    /\ screen = "signup"
    /\ notice = "Username already exists!"
    /\ "amina" \in DOMAIN session_state.users
    /\ session_state.users["student1"].password = "studentpass"

\* ------------------------------------------------------------------------
\* the claims on src/BeldyConnect.py (checked under SpecBC)
\* ------------------------------------------------------------------------

\* C15, the run: a sign-up that creates an account is followed by the login
\* page.
C15_NextPageIsLogin ==
    (DOMAIN session_state'.users # DOMAIN session_state.users) =>
        /\ screen = "bc_signup"
        /\ screen' = "bc_login"

\* C15, the flags: show_signup and show_login are never both true.
C15_FlagsExclusive == ~(session_state.show_signup /\ session_state.show_login)

\* C15: after a successful sign-up the account is created and the next page
\* main renders is the login page; show_signup and show_login are never
\* both true.
C15_SignUpLeadsToLogin == [][C15_NextPageIsLogin]_vars /\ []C15_FlagsExclusive

\* C19: whenever student_dashboard comes to the summary of the confirmed
\* order (order_confirmed true, delivery_details set) and evaluates
\* selected_basket['price'], selected_basket is not None; no run ends in
\* the exception of that dereference.
C19_SummaryHasBasket ==
    /\ (session_state.order_confirmed /\ Truthy(session_state.delivery_details)) =>
           session_state.selected_basket # None
    /\ screen # "bc_exception"

\* The summary of an order placed by a user who had logged out and in again
\* before choosing the basket.
C19_Witness ==
    /\ screen = "bc_order_summary"
    /\ session_state.show_feedback
    /\ session_state.order_confirmed
    /\ Truthy(session_state.delivery_details)
    /\ session_state.selected_basket # None

\* ------------------------------------------------------------------------
\* the claims on every variant (checked under SpecVariants)
\* ------------------------------------------------------------------------

\* C14, the invariant: show_custom_basket and show_existing_baskets are
\* never both true.
C14_FlagsExclusive ==
    ~(session_state.show_custom_basket /\ session_state.show_existing_baskets)

\* C14, every run: a run that turns one flag true leaves the other false; a
\* run that logs in, and a run of "Start New Order" (the only one that takes
\* order_confirmed back), leave both false.
C14_Run ==
    /\ (~session_state.show_custom_basket /\ session_state'.show_custom_basket) =>
           ~session_state'.show_existing_baskets
    /\ (~session_state.show_existing_baskets /\ session_state'.show_existing_baskets) =>
           ~session_state'.show_custom_basket
    /\ (~session_state.logged_in /\ session_state'.logged_in) =>
           /\ ~session_state'.show_custom_basket
           /\ ~session_state'.show_existing_baskets
    /\ (session_state.order_confirmed /\ ~session_state'.order_confirmed) =>
           /\ ~session_state'.show_custom_basket
           /\ ~session_state'.show_existing_baskets

\* C14: in every reachable session state the two page flags are never both
\* true: every action that sets one to true sets the other to false, and
\* login and "Start New Order" set both to false.
C14_BasketPagesExclusive == []C14_FlagsExclusive /\ [][C14_Run]_vars

\* A BeldyConnect session that opened the custom-basket page and predicted
\* a price there, after an earlier order and "Start New Order".
C14_Witness ==
    /\ screen = "bc_custom_basket+confirmation"
    /\ session_state.show_custom_basket
    /\ ~session_state.show_existing_baskets
    /\ session_state.order_address # <<>>

\* C23, the invariant: a logged-in session names a registered user and holds
\* that user's record.
C23_LoggedInIsRegistered ==
    session_state.logged_in =>
        /\ session_state.username # None
        /\ session_state.username[1] \in DOMAIN session_state.users
        /\ session_state.user_info = session_state.users[session_state.username[1]]

\* C23, what a Login handler returned for one username and password: with a
\* registered username and its stored password it logs that user in, with
\* anything else it shows the error and returns the state it was given.
C23_Outcome(state, username, password, after, error) ==
    IF username \in DOMAIN state.users /\ state.users[username].password = password
    THEN /\ error = ""
         /\ after.logged_in
         /\ after.username = Some(username)
         /\ after.user_info = state.users[username]
    ELSE /\ error = "Invalid credentials"
         /\ after = state

\* C23, the two Login handlers on the pages that show them.
C23_Handler ==
    \A username \in LoginNames, password \in LoginPasswords :
        /\ (screen = "login") =>
               C23_Outcome(session_state, username, password,
                           login_submit(session_state, username, password),
                           login_error(session_state, username, password))
        /\ (screen = "bc_login") =>
               C23_Outcome(session_state, username, password,
                           bc_login_submit(session_state, username, password),
                           bc_login_error(session_state, username, password))

\* C23, every run: logged_in turns true only in a run of a login page that
\* showed no error; a run that shows "Invalid credentials" leaves the whole
\* session state, and the page, as they were.
C23_Run ==
    /\ (~session_state.logged_in /\ session_state'.logged_in) =>
           /\ screen \in {"login", "bc_login"}
           /\ notice' = ""
           /\ session_state'.users = session_state.users
    /\ (notice' = "Invalid credentials") =>
           /\ screen \in {"login", "bc_login"}
           /\ session_state' = session_state
           /\ screen' = screen

\* C23: login succeeds only when the entered username is a key of users and
\* the entered password equals that user's stored password; a failed login
\* leaves the whole session state unchanged; in every reachable state
\* logged_in implies that username is a registered user and user_info is
\* that user's record.
C23_LoginNeedsCredentials ==
    /\ [](C23_LoggedInIsRegistered /\ C23_Handler)
    /\ [][C23_Run]_vars

\* A login was refused on a login page after a user who signed up in this
\* session had logged in and out.
C23_Witness ==
    /\ notice = "Invalid credentials"
    /\ screen \in {"login", "bc_login"}
    /\ ~session_state.logged_in
    /\ session_state.username = Some("amina")

\* ------------------------------------------------------------------------
\* the claims on show_delivery_scheduling (checked under SpecSlots)
\* ------------------------------------------------------------------------

\* The hour, on the 24-hour clock, a time slot's text shows.
HourShown(text) == (text.I % 12) + (IF text.p = "PM" THEN 12 ELSE 0)

\* C25: for every current time of day, none of the four time slots used to
\* build the Express and Standard windows has an hour of 22 or later.
C25_NoLateSlot ==
    (call # None /\ call[1].at = "radio") =>
        \A k \in 1 .. 4 : HourShown(call[1].time_slots[k].text) < 22

\* C26, its first half: the loops are left with exactly four time slots, and
\* st.radio does not raise IndexError.
C26_FourSlots ==
    (call # None /\ call[1].at \in {"radio", "IndexError"}) =>
        /\ call[1].at = "radio"
        /\ Len(call[1].time_slots) = 4

\* C26, its first half: each pass of the fill loop adds one slot, so the
\* loop runs at most four times.
C26_FillProgress ==
    [][(call # None /\ call[1].at = "while" /\ call' # None /\ call'[1].at = "while")
        => (Len(call'[1].time_slots) = Len(call[1].time_slots) + 1)]_vars

\* C26: for every current time of day the fill loop ends with exactly four
\* time slots, and the four slots are in strictly increasing chronological
\* order (by the datetimes they were formatted from).
C26_FourIncreasingSlots ==
    (call # None /\ call[1].at = "radio") =>
        /\ Len(call[1].time_slots) = 4
        /\ \A k \in 1 .. 3 : call[1].time_slots[k].datetime < call[1].time_slots[k + 1].datetime

\* ------------------------------------------------------------------------
\* the claim on log_feedback (checked under SpecFeedback)
\* ------------------------------------------------------------------------

\* C27: log_feedback only ever appends: a call that changes feedback.csv adds
\* exactly one row and keeps every row logged earlier, in place, also when
\* the appending write fails and the except branch writes.
C27_OnlyAppends ==
    [][(disk'.feedback # disk.feedback) =>
        /\ Len(disk'.feedback) = Len(disk.feedback) + 1
        /\ SubSeq(disk'.feedback, 1, Len(disk.feedback)) = disk.feedback]_vars

\* ------------------------------------------------------------------------
\* the claim on src/Beldy-Connect.py (checked under SpecMail)
\* ------------------------------------------------------------------------

\* C20: every run of "Confirm Order" that turns order_confirmed from false
\* to true calls send_order_notification exactly once (the run made one
\* call of it), and the order is confirmed whether or not the email went
\* out.
C20_ConfirmationNotifies ==
    [][(~session_state.order_confirmed /\ session_state'.order_confirmed) =>
           /\ call' # None
           /\ call'[1].function = "send_order_notification"]_vars

=============================================================================
